---- MODULE Spec2Model ----
(***************************************************************************)
(* A model of kohuhu: the one-way pair arbitrage strategy                  *)
(* (src/src/kohuhu/arbitrage.py), the action and order records it works on *)
(* (src/src/kohuhu/exchanges.py) and the Gemini exchange client            *)
(* (src/src/kohuhu/gemini.py).                                             *)
(*                                                                         *)
(* Units.  BTC amounts are integers in units of 0.001 BTC, prices are      *)
(* integers in cents, USD balances are integers in units of 10^-6 USD.     *)
(* Decimal arithmetic is exact at these magnitudes, so every comparison    *)
(* of the code is stated on integers by cross-multiplication.              *)
(***************************************************************************)
EXTENDS Integers, Sequences, FiniteSets, TLC

(***************************************************************************)
(* Bounds of the model.                                                    *)
(***************************************************************************)
\* The exchange to buy on accepts at most this many orders.
MaxOrders == 2
\* A Gemini socket is read while its expected socket_sequence is below this.
MaxSeq == 2
\* Heartbeats are read while the expected heartbeat sequence is below this.
MaxHeartbeat == 1
\* Messages waiting in a Gemini socket's queue.
MaxQueue == 2

(***************************************************************************)
(* Configuration of the strategy (OneWayPairArbitrage.__init__).           *)
(***************************************************************************)
\* bid_amount_in_btc = Decimal("0.01"), in units of 0.001 BTC.
BidAmount == 10
\* order_update_threshold = Decimal("0.1"), in twentieths.
UpdateThresholdTwentieths == 2
\* profit_target = Decimal("0.05"), in twentieths.
ProfitTargetTwentieths == 1
\* Maker fee of the exchange to buy on and taker fee of the exchange to
\* sell on, in percent (exchanges_old.fees is not part of the sources).
MakerFeePct == 1
TakerFeePct == 1

Venues == {"gdax", "gemini"}

VARIABLES
    exchange_buy_on,      \* the exchange the limit bids are placed on
    exchange_sell_on,     \* the exchange the market asks are placed on
    live_limit_action,    \* _live_limit_action, NoAction for None
    live_cancel_action,   \* _live_cancel_action, NoAction for None
    previous_fill_amount, \* _previous_fill_amount
    action_queue,         \* Trader._actions: the actions not yet dispatched
    orders_accepted,      \* orders the exchange to buy on has accepted
    sell_bids,            \* order_book.bids() of the exchange to sell on
    last,                 \* what the on_data call that led here saw and did
    halted                \* an exception left on_data

avars == <<exchange_buy_on, exchange_sell_on, live_limit_action,
           live_cancel_action, previous_fill_amount, action_queue,
           orders_accepted, sell_bids, last, halted>>

VARIABLES
    socket_info,          \* per stream: seq, heartbeat_seq, heartbeat_timestamp_ms
    qsize,                \* per stream: messages waiting in socket_info.queue
    pending_callback,     \* per stream: pending_callback of _process_queue
    orders,               \* exchange_state._orders: order_id -> Order
    create_actions,       \* the CreateOrder objects given to the client
    cancel_actions,       \* the CancelOrder objects given to the client
    known_actions,        \* GeminiExchange._actions
    known_cancel_actions, \* GeminiExchange._cancel_actions, by order_id
    order_book,           \* exchange_state.order_book(): bids and asks
    answers,              \* per CreateOrder: the exchange's answer to it
    event,                \* the message whose processing led here
    stopped               \* an exception left a coroutine of the client

gvars == <<socket_info, qsize, pending_callback, orders,
           create_actions, cancel_actions, known_actions,
           known_cancel_actions, order_book, answers, event, stopped>>

VARIABLES
    gdax_book,            \* GdaxExchange.exchange_state.order_book()
    order_book_ready,     \* GdaxExchange.order_book_ready is set
    last_heartbeat_time,  \* GdaxExchange._last_heartbeat_time is not None
    gdax_qsize,           \* messages waiting in GdaxExchange._message_queue
    gdax_event,           \* the GDAX message whose processing led here
    gdax_stopped          \* an exception left a coroutine of run_task()

xvars == <<gdax_book, order_book_ready, last_heartbeat_time, gdax_qsize,
           gdax_event, gdax_stopped>>

VARIABLES
    tasks,                \* the tasks Trader.start() waits for, each with its state
    loop_closed           \* start() has stopped and closed the event loop

tvars == <<tasks, loop_closed>>

VARIABLES
    calls                 \* the calls of on_data that have not returned, newest first

rvars == <<calls>>

VARIABLES
    update_callbacks,     \* per exchange: Publisher._update_callbacks
    notification          \* the notify() call that led here and what it did

nvars == <<update_callbacks, notification>>

VARIABLES
    gdax_authenticate,    \* GdaxExchange._authenticate
    gdax_create_actions,  \* GdaxExchange._create_actions
    gdax_cancel_actions,  \* the order ids of GdaxExchange._cancel_actions
    gdax_request          \* the execute_action call that led here

evars == <<gdax_authenticate, gdax_create_actions, gdax_cancel_actions,
           gdax_request>>

VARIABLES
    request               \* the execute_action call of the Gemini client that led here

hvars == <<request>>

VARIABLES
    clock,                \* utcnow(), in hundredths of a second since the feed opened
    last_heartbeat_at,    \* GdaxExchange._last_heartbeat_time, None before the first heartbeat
    watchdog_wakes,       \* the time at which the sleep of _watchdog ends
    beat,                 \* the heartbeat whose handling led here
    watch,                \* the check of _watchdog that led here
    feed_stopped          \* an exception left _handle_heartbeat or _watchdog

wvars == <<clock, last_heartbeat_at, watchdog_wakes, beat, watch,
           feed_stopped>>

vars == <<avars, gvars, xvars, tvars, rvars, nvars, evars, hvars, wvars>>

(***************************************************************************)
(* Records of exchanges.py.                                                *)
(***************************************************************************)
\* None, where an Order is expected.
NoOrder ==
    [order_id |-> "none", status |-> "none", amount |-> 0, filled |-> 0,
     remaining |-> 0, price |-> 0]

\* None, where an Action is expected.
NoAction ==
    [kind |-> "none", exchange |-> "none", side |-> "none", type |-> "none",
     amount |-> 0, price |-> 0, order |-> NoOrder, status |-> "none",
     order_id |-> "none"]

\* CreateOrder.__init__(self, exchange_id, side, type, amount, price=None)
CreateOrder(exchange_id, side, type, amount, price) ==
    [kind |-> "create", exchange |-> exchange_id, side |-> side,
     type |-> type, amount |-> amount, price |-> price, order |-> NoOrder,
     status |-> "PENDING", order_id |-> "none"]

\* CancelOrder.__init__(self, order_id, exchange_id): sets exchange and
\* order_id and no status attribute ("unset" until somebody assigns it).
CancelOrder(order_id, exchange_id) ==
    [kind |-> "cancel", exchange |-> exchange_id, side |-> "none",
     type |-> "none", amount |-> 0, price |-> 0, order |-> NoOrder,
     status |-> "unset", order_id |-> order_id]

(***************************************************************************)
(* Inputs of the strategy.                                                 *)
(***************************************************************************)
\* Bid sides of the order book of the exchange to sell on, best price first.
Books ==
    { <<[price |-> 100, quantity |-> 20]>>,
      <<[price |-> 95, quantity |-> 20]>>,
      <<[price |-> 80, quantity |-> 20]>>,
      <<[price |-> 100, quantity |-> 5], [price |-> 80, quantity |-> 10]>>,
      <<[price |-> 100, quantity |-> 5]>> }

\* balance.free('USD') after the forced refresh, in units of 10^-6 USD.
UsdBalances == {0, 50, 1000000}

Min(a, b) == IF a < b THEN a ELSE b
Abs(x) == IF x < 0 THEN 0 - x ELSE x

(***************************************************************************)
(* Price arithmetic of arbitrage.py.  A price that is not yet rounded is a *)
(* fraction [n, d] of cents.                                               *)
(***************************************************************************)
\* currency.round_to_cents: quantize(ONE_CENT, ROUND_HALF_UP)
round_to_cents(n, d) == (n \div d) + (IF 2 * (n % d) >= d THEN 1 ELSE 0)

\* exchanges_old.fee_as_factor(maker) * fee_as_factor(taker) = FeeNum / FeeDen
FeeNum == 100 * 100
FeeDen == (100 + MakerFeePct) * (100 + TakerFeePct)

\* _calculate_effective_sell_price: the loop, from bid_index on.  The result
\* is [ok, num] with effective_market_price = num / sell_amount; ok is FALSE
\* when the loop raises because the bids run out.
RECURSIVE calculate_effective_sell_price(_, _, _, _, _, _)
calculate_effective_sell_price(sell_amount, bids, bid_index, capacity_counted, remaining, num) ==
    IF ~(capacity_counted < sell_amount) THEN [ok |-> TRUE, num |-> num]
    ELSE IF bid_index > Len(bids) THEN [ok |-> FALSE, num |-> 0]
    ELSE LET highest_bid == bids[bid_index]
             amount_used == Min(highest_bid.quantity, remaining)
         IN calculate_effective_sell_price(
                sell_amount, bids, bid_index + 1,
                capacity_counted + highest_bid.quantity, remaining,
                num + amount_used * highest_bid.price)

effective_sell_price(sell_amount, bids) ==
    calculate_effective_sell_price(sell_amount, bids, 1, 0, sell_amount, 0)

\* The quantity of all the bids.
BookQuantity(bids) ==
    LET RECURSIVE total(_)
        total(k) == IF k > Len(bids) THEN 0 ELSE bids[k].quantity + total(k + 1)
    IN total(1)

\* The value of `needed` BTC sold to the bids from the k-th on: each bid is
\* used for the quantity still needed and no more.
RECURSIVE FilledValue(_, _, _)
FilledValue(bids, k, needed) ==
    IF needed <= 0 \/ k > Len(bids) THEN 0
    ELSE LET used == Min(bids[k].quantity, needed)
         IN used * bids[k].price + FilledValue(bids, k + 1, needed - used)

\* _calculate_bid_limit_price followed by currency.round_to_cents:
\* fee_factor * (num / sell_amount) / (1 + profit_target), in cents.
calculate_bid_limit_price(num, sell_amount) ==
    round_to_cents(FeeNum * num * 20,
                   FeeDen * sell_amount * (20 + ProfitTargetTwentieths))

\* _should_cancel_order with _calculate_profit_factor:
\* abs(fee_factor * sell_price / bid_price - (1 + profit_target))
\*     > order_update_threshold, where sell_price = num / sell_amount.
should_cancel_order(bid_price, num, sell_amount) ==
    LET x == FeeNum * num
        y == FeeDen * sell_amount * bid_price
    IN Abs(20 * x - (20 + ProfitTargetTwentieths) * y)
           > UpdateThresholdTwentieths * y

(***************************************************************************)
(* on_data.  The strategy's fields travel in a record st; st.raised names  *)
(* the exception that left on_data, "" when none did; st.emitted lists the *)
(* actions this call handed to _add_action_callback and st.fill_prev is    *)
(* _previous_fill_amount as _process_fill left it.                         *)
(***************************************************************************)
Raise(st, why) == [st EXCEPT !.raised = why]

\* Trader.add_action, reached through _add_action_callback.
add_action(st, action) ==
    [st EXCEPT !.q = Append(@, action), !.emitted = Append(@, action)]

\* A sanity check that lets every action through.
sanity_check_action_skipped(action) == TRUE

\* _sanity_check_action: TRUE when it returns the action, FALSE when it
\* raises.
sanity_check_action(action) ==
    /\ ~(action.type = "MARKET" /\ action.side = "BID")
    /\ ~(action.type = "LIMIT" /\ action.side = "ASK")
    /\ ~(action.exchange = exchange_buy_on /\ action.side = "ASK")
    /\ ~(action.exchange = exchange_sell_on /\ action.side = "BID")

\* _sanity_check_order: "" when it returns, else the exception.
sanity_check_order(order) ==
    IF order = NoOrder THEN "order is None"
    ELSE IF order.amount = 0 THEN "order for 0 BTC"
    ELSE IF order.filled > BidAmount THEN "filled more than placed"
    ELSE ""

\* _create_bid_limit_order: [why, action]; why is "" when it returns.
create_bid_limit_order(rest_ok, usd_balance) ==
    LET sell == effective_sell_price(BidAmount, sell_bids)
        max_can_afford == usd_balance \div BidAmount
        btc_amount == Min(BidAmount, max_can_afford)
    IN IF ~rest_ok THEN [why |-> "balance request failed", action |-> NoAction]
       ELSE IF ~sell.ok THEN [why |-> "not enough bids", action |-> NoAction]
       ELSE IF btc_amount = 0 THEN [why |-> "not enough funds", action |-> NoAction]
       ELSE [why |-> "",
             action |-> CreateOrder(exchange_buy_on, "BID", "LIMIT", btc_amount,
                            calculate_bid_limit_price(sell.num, BidAmount))]

\* The bid is enqueued but not kept as the live limit action.
on_data_create_bid_unrecorded(st, rest_ok, usd_balance) ==
    IF st.ll # NoAction THEN st
    ELSE LET r == create_bid_limit_order(rest_ok, usd_balance)
         IN IF r.why # "" THEN Raise(st, r.why)
            ELSE IF sanity_check_action(r.action) THEN add_action(st, r.action)
            ELSE Raise(st, "sanity check")

\* on_data, lines 112-118: create a bid limit action if there is none.
on_data_create_bid(st, rest_ok, usd_balance) ==
    IF st.ll # NoAction THEN st
    ELSE LET r == create_bid_limit_order(rest_ok, usd_balance)
             st2 == [st EXCEPT !.ll = r.action]
         IN IF r.why # "" THEN Raise(st, r.why)
            ELSE IF sanity_check_action(r.action) THEN add_action(st2, r.action)
            ELSE Raise(st2, "sanity check")

\* _process_fill
process_fill(st) ==
    LET order == st.ll.order
        latest_fill_amount == order.filled
        fill_diff == latest_fill_amount - st.prev
        market_ask_action ==
            CreateOrder(exchange_sell_on, "ASK", "MARKET", fill_diff, 0)
        st2 == IF fill_diff = 0 THEN st
               ELSE IF ~sanity_check_action(market_ask_action)
                    THEN Raise(st, "sanity check")
               ELSE [add_action(st, market_ask_action)
                     EXCEPT !.prev = latest_fill_amount,
                            !.fill_prev = latest_fill_amount]
    IN IF sanity_check_order(order) # "" THEN Raise(st, sanity_check_order(order))
       ELSE IF st2.raised # "" THEN st2
       ELSE IF latest_fill_amount = BidAmount /\ order.status # "CLOSED"
            THEN Raise(st2, "fully filled but not closed")
       ELSE st2

\* A re-pricing that places the bid at the new price without cancelling
\* the live one first.
update_bid_limit_order_replaces(st) ==
    LET order == st.ll.order
        new_best_price == effective_sell_price(BidAmount, sell_bids)
        bid == CreateOrder(exchange_buy_on, "BID", "LIMIT", BidAmount,
                   calculate_bid_limit_price(new_best_price.num, BidAmount))
    IN IF st.ll = NoAction THEN st
       ELSE IF order = NoOrder THEN st
       ELSE IF ~new_best_price.ok THEN Raise(st, "not enough bids")
       ELSE IF order.price = 0 THEN Raise(st, "division by zero")
       ELSE IF should_cancel_order(order.price, new_best_price.num, BidAmount)
            THEN add_action([st EXCEPT !.ll = bid], bid)
       ELSE st

\* update_bid_limit_order
update_bid_limit_order(st) ==
    LET order == st.ll.order
        new_best_price == effective_sell_price(BidAmount, sell_bids)
        cancel == CancelOrder(exchange_buy_on, order.order_id)
    IN IF st.ll = NoAction THEN st
       ELSE IF order = NoOrder THEN st
       ELSE IF ~new_best_price.ok THEN Raise(st, "not enough bids")
       ELSE IF order.price = 0 THEN Raise(st, "division by zero")
       ELSE IF should_cancel_order(order.price, new_best_price.num, BidAmount)
            THEN add_action([st EXCEPT !.lc = cancel], cancel)
       ELSE st

\* The cancel handling that forgets only the cancel action on SUCCESS.
on_data_keeps_limit_action(st) ==
    IF st.lc # NoAction
    THEN IF st.lc.status = "unset" THEN Raise(st, "cancel action has no status")
         ELSE IF st.lc.status = "PENDING" THEN st
         ELSE IF st.lc.status = "SUCCESS" THEN [st EXCEPT !.lc = NoAction]
         ELSE Raise(st, "cancel action failed")
    ELSE IF st.ll.order.status = "CANCELLED"
         THEN Raise(st, "cancelled without intention")
    ELSE IF st.ll.order.status = "CLOSED"
         THEN [st EXCEPT !.ll = NoAction, !.lc = NoAction, !.prev = 0]
    ELSE IF st.ll.order.status # "OPEN" THEN Raise(st, "unexpected order status")
    ELSE update_bid_limit_order(st)

\* on_data, lines 145-186: the planned cancellation, then the order status.
on_data_cancel_and_update(st) ==
    IF st.lc # NoAction
    THEN IF st.lc.status = "unset" THEN Raise(st, "cancel action has no status")
         ELSE IF st.lc.status = "PENDING" THEN st
         ELSE IF st.lc.status = "SUCCESS"
              THEN IF st.ll.status = "OPEN"
                   THEN Raise(st, "cancel successful but order open")
                   ELSE [st EXCEPT !.ll = NoAction, !.lc = NoAction]
         ELSE Raise(st, "cancel action failed")
    ELSE IF st.ll.order.status = "CANCELLED"
         THEN Raise(st, "cancelled without intention")
    ELSE IF st.ll.order.status = "CLOSED"
         THEN [st EXCEPT !.ll = NoAction, !.lc = NoAction, !.prev = 0]
    ELSE IF st.ll.order.status # "OPEN" THEN Raise(st, "unexpected order status")
    ELSE update_bid_limit_order(st)

\* on_data that handles a live cancel action before it looks at the fill.
on_data_cancel_first(st, rest_ok, usd_balance) ==
    LET s1 == on_data_create_bid(st, rest_ok, usd_balance)
        s2 == process_fill(s1)
    IN IF s1.raised # "" THEN s1
       ELSE IF s1.ll.status = "FAILED" THEN [s1 EXCEPT !.ll = NoAction]
       ELSE IF s1.ll.status = "PENDING" THEN s1
       ELSE IF s1.ll.status # "SUCCESS" THEN Raise(s1, "unexpected action status")
       ELSE IF s1.lc # NoAction THEN on_data_cancel_and_update(s1)
       ELSE IF s2.raised # "" THEN s2
       ELSE on_data_cancel_and_update(s2)

\* on_data that makes the next bid in the call that clears a failed one.
on_data_rebids_at_once(st, rest_ok, usd_balance) ==
    LET s1 == on_data_create_bid(st, rest_ok, usd_balance)
        s2 == process_fill(s1)
    IN IF s1.raised # "" THEN s1
       ELSE IF s1.ll.status = "FAILED"
            THEN on_data_create_bid([s1 EXCEPT !.ll = NoAction],
                                    rest_ok, usd_balance)
       ELSE IF s1.ll.status = "PENDING" THEN s1
       ELSE IF s1.ll.status # "SUCCESS" THEN Raise(s1, "unexpected action status")
       ELSE IF s2.raised # "" THEN s2
       ELSE on_data_cancel_and_update(s2)

\* on_data
on_data(st, rest_ok, usd_balance) ==
    LET s1 == on_data_create_bid(st, rest_ok, usd_balance)
        s2 == process_fill(s1)
    IN IF s1.raised # "" THEN s1
       ELSE IF s1.ll.status = "FAILED" THEN [s1 EXCEPT !.ll = NoAction]
       ELSE IF s1.ll.status = "PENDING" THEN s1
       ELSE IF s1.ll.status # "SUCCESS" THEN Raise(s1, "unexpected action status")
       ELSE IF s2.raised # "" THEN s2
       ELSE on_data_cancel_and_update(s2)

(***************************************************************************)
(* The strategy as a state machine.                                        *)
(***************************************************************************)
NoCall ==
    [called |-> FALSE, pre_limit |-> NoAction, pre_cancel |-> NoAction,
     pre_prev |-> 0, fill_prev |-> 0, emitted |-> <<>>, raised |-> "",
     usd_balance |-> 0]

\* OneWayPairArbitrage.__init__
AInit ==
    /\ exchange_buy_on = "gdax"
    /\ exchange_sell_on \in Venues
    /\ live_limit_action = NoAction
    /\ live_cancel_action = NoAction
    /\ previous_fill_amount = 0
    /\ action_queue = <<>>
    /\ orders_accepted = 0
    /\ sell_bids \in Books
    /\ last = NoCall
    /\ halted = FALSE

\* One call of on_data with the refreshed balance it reads.
OnData(rest_ok, usd_balance) ==
    /\ ~halted
    /\ LET st == [ll |-> live_limit_action, lc |-> live_cancel_action,
                  prev |-> previous_fill_amount, q |-> action_queue,
                  fill_prev |-> previous_fill_amount, emitted |-> <<>>,
                  raised |-> ""]
           r == on_data(st, rest_ok, usd_balance)
       IN /\ live_limit_action' = r.ll
          /\ live_cancel_action' = r.lc
          /\ previous_fill_amount' = r.prev
          /\ action_queue' = r.q
          /\ halted' = (r.raised # "")
          /\ last' = [called |-> TRUE, pre_limit |-> live_limit_action,
                      pre_cancel |-> live_cancel_action,
                      pre_prev |-> previous_fill_amount,
                      fill_prev |-> r.fill_prev,
                      emitted |-> r.emitted, raised |-> r.raised,
                      usd_balance |-> IF live_limit_action = NoAction
                                      THEN usd_balance ELSE 0]
    /\ UNCHANGED <<exchange_buy_on, exchange_sell_on, orders_accepted,
                   sell_bids>>

\* on_timer(time)
OnTimer ==
    \E rest_ok \in BOOLEAN, usd_balance \in UsdBalances :
        /\ rest_ok \/ usd_balance = 0
        /\ OnData(rest_ok, usd_balance)

\* on_update(publisher_id, update_description)
OnUpdate ==
    \E rest_ok \in BOOLEAN, usd_balance \in UsdBalances :
        /\ rest_ok \/ usd_balance = 0
        /\ OnData(rest_ok, usd_balance)

(***************************************************************************)
(* The trader and the exchange clients, as the strategy sees them.  The    *)
(* trader takes the actions out of its queue; the exchange clients then    *)
(* set the status and the order of an action they were given, and keep the *)
(* order book of the exchange to sell on.  An action in the queue is the   *)
(* object the strategy holds, so a live action is still waiting exactly    *)
(* when it is in the queue.                                                *)
(***************************************************************************)
IsQueued(action) == \E k \in 1..Len(action_queue) : action_queue[k] = action

EnvUnchanged ==
    /\ last' = NoCall
    /\ UNCHANGED <<exchange_buy_on, exchange_sell_on, previous_fill_amount,
                   action_queue, sell_bids, halted>>

\* The trader hands the oldest queued action to its exchange client.
Dispatch ==
    /\ ~halted
    /\ action_queue # <<>>
    /\ action_queue' = Tail(action_queue)
    /\ last' = NoCall
    /\ UNCHANGED <<exchange_buy_on, exchange_sell_on, live_limit_action,
                   live_cancel_action, previous_fill_amount, orders_accepted,
                   sell_bids, halted>>

\* 'accepted': the live bid gets its order and the status SUCCESS.
VenueAccepts ==
    /\ ~halted
    /\ live_limit_action.status = "PENDING"
    /\ ~IsQueued(live_limit_action)
    /\ orders_accepted < MaxOrders
    /\ orders_accepted' = orders_accepted + 1
    /\ live_limit_action' = [live_limit_action EXCEPT
           !.status = "SUCCESS",
           !.order = [order_id |-> ToString(orders_accepted + 1),
                      status |-> "OPEN", amount |-> live_limit_action.amount,
                      filled |-> 0, remaining |-> live_limit_action.amount,
                      price |-> live_limit_action.price]]
    /\ UNCHANGED live_cancel_action
    /\ EnvUnchanged

\* 'rejected': the live bid gets the status FAILED.
VenueRejects ==
    /\ ~halted
    /\ live_limit_action.status = "PENDING"
    /\ ~IsQueued(live_limit_action)
    /\ live_limit_action' = [live_limit_action EXCEPT !.status = "FAILED"]
    /\ UNCHANGED <<live_cancel_action, orders_accepted>>
    /\ EnvUnchanged

\* 'fill': the order is filled up to f; a complete fill may leave the order
\* open until its 'closed' event arrives.
VenueFills(f, closes) ==
    /\ ~halted
    /\ live_limit_action.order.status = "OPEN"
    /\ f > live_limit_action.order.filled
    /\ f <= live_limit_action.order.amount
    /\ closes => f = live_limit_action.order.amount
    /\ live_limit_action' = [live_limit_action EXCEPT
           !.order.filled = f,
           !.order.remaining = live_limit_action.order.amount - f,
           !.order.status = IF closes THEN "CLOSED" ELSE "OPEN"]
    /\ UNCHANGED <<live_cancel_action, orders_accepted>>
    /\ EnvUnchanged

\* 'closed': the order leaves the book, cancelled or not.
VenueCloses(is_cancelled) ==
    /\ ~halted
    /\ live_limit_action.order.status = "OPEN"
    /\ live_limit_action' = [live_limit_action EXCEPT
           !.order.status = IF is_cancelled THEN "CANCELLED" ELSE "CLOSED"]
    /\ UNCHANGED <<live_cancel_action, orders_accepted>>
    /\ EnvUnchanged

\* 'cancelled' / 'cancel_rejected': the live cancel action gets its status.
VenueAnswersCancel(status) ==
    /\ ~halted
    /\ live_cancel_action.kind = "cancel"
    /\ ~IsQueued(live_cancel_action)
    /\ live_cancel_action.status \in {"unset", "PENDING"}
    /\ live_cancel_action' = [live_cancel_action EXCEPT !.status = status]
    /\ UNCHANGED <<live_limit_action, orders_accepted>>
    /\ EnvUnchanged

\* A change of the bids of the exchange to sell on.
BookUpdate ==
    /\ ~halted
    /\ sell_bids' \in Books \ {sell_bids}
    /\ last' = NoCall
    /\ UNCHANGED <<exchange_buy_on, exchange_sell_on, live_limit_action,
                   live_cancel_action, previous_fill_amount, action_queue,
                   orders_accepted, halted>>

FillLevels == {BidAmount \div 2, BidAmount}

ANext ==
    \/ OnTimer
    \/ OnUpdate
    \/ Dispatch
    \/ VenueAccepts
    \/ VenueRejects
    \/ \E f \in FillLevels, closes \in BOOLEAN : VenueFills(f, closes)
    \/ \E is_cancelled \in BOOLEAN : VenueCloses(is_cancelled)
    \/ \E status \in {"PENDING", "SUCCESS", "FAILED"} : VenueAnswersCancel(status)
    \/ BookUpdate

(***************************************************************************)
(* The Gemini exchange client (gemini.py).                                 *)
(***************************************************************************)
Streams == {"orders", "market_data"}
CreateIds == {"a1"}
OrderIds == {"o1", "o2"}
\* The orders the strategy asks the client to cancel.
CancelTargets == {"o1"}

\* self.request_retry_limit = 4
request_retry_limit == 4

\* None, where a number is expected.
None == 0 - 1

\* SocketInfo.__init__
SocketInfo == [seq |-> 0, heartbeat_seq |-> 0, heartbeat_timestamp_ms |-> None]

\* exchanges.Order(): every field is None.
Order ==
    [order_id |-> "none", amount |-> None, filled |-> None,
     remaining |-> None, status |-> "none"]

\* CreateOrder.order names an Order object.  The object is the one stored in
\* exchange_state._orders under order_id ("stored"), or one that was stored
\* there until another object was stored under its order_id and that is
\* kept here by value ("detached"), or there is none ("none").
NoRef == [kind |-> "none", order_id |-> "none", value |-> Order]
StoredRef(order_id) == [kind |-> "stored", order_id |-> order_id, value |-> Order]

\* The amounts an order event carries: original_amount with executed_amount
\* and remaining_amount, or original_amount alone.
Amounts ==
    { [original_amount |-> 2, executed_amount |-> 1, remaining_amount |-> 1],
      [original_amount |-> 2, executed_amount |-> None,
       remaining_amount |-> None] }

NoAmounts ==
    [original_amount |-> None, executed_amount |-> None,
     remaining_amount |-> None]

\* client_order_id of a message: absent, or the id() of a CreateOrder either
\* as the integer itself or as the decimal string that was sent.
NoClientId == [form |-> "none", of |-> "none"]
ClientIds ==
    {NoClientId} \cup [form : {"int", "str"}, of : CreateIds]

\* The fields of a message the client reads.
Blank ==
    [type |-> "none", socket_sequence |-> 0, sequence |-> 0,
     timestampms |-> 0, order_id |-> "none", client_order_id |-> NoClientId,
     is_live |-> FALSE, is_cancelled |-> FALSE, amounts |-> NoAmounts,
     filters |-> 0, api_session_filter |-> 0, key_matches |-> FALSE,
     side |-> "none", price |-> 0, remaining |-> 0]

OrderEventTypes ==
    {"initial", "accepted", "rejected", "booked", "fill", "cancelled",
     "cancel_rejected", "closed"}

\* OrderResponse.update_order: the order after the response is copied in.
update_order(response, order) ==
    [order EXCEPT
        !.order_id = response.order_id,
        !.amount = response.amounts.original_amount,
        !.filled = response.amounts.executed_amount,
        !.remaining = response.amounts.remaining_amount,
        !.status = IF response.is_cancelled THEN "CANCELLED"
                   ELSE IF response.is_live THEN "OPEN"
                   ELSE "CLOSED"]

\* _check_sequence: the socket info after the check, raised when it raises.
check_sequence(response, si) ==
    IF response.type = "subscription_ack"
    THEN [si |-> si,
          raised |-> IF si.seq # 0 THEN "ack after sequence began" ELSE ""]
    ELSE IF response.socket_sequence # si.seq
         THEN [si |-> si, raised |-> "missed a socket_sequence"]
    ELSE [si |-> [si EXCEPT !.seq = @ + 1], raised |-> ""]

\* A heartbeat check that does not compare the heartbeat sequence.
process_heartbeat_uncompared(response, si) ==
    IF response.type # "heartbeat"
    THEN [si |-> si, raised |-> "not a heartbeat"]
    ELSE IF response.socket_sequence = 0
         THEN [si |-> si, raised |-> "heartbeat first"]
    ELSE [si |-> [si EXCEPT !.heartbeat_seq = @ + 1,
                            !.heartbeat_timestamp_ms = response.timestampms],
          raised |-> ""]

\* _process_heartbeat
process_heartbeat(response, si) ==
    IF response.type # "heartbeat"
    THEN [si |-> si, raised |-> "not a heartbeat"]
    ELSE IF response.socket_sequence = 0
         THEN [si |-> si, raised |-> "heartbeat first"]
    ELSE IF response.sequence # si.heartbeat_seq
         THEN [si |-> si, raised |-> "missed a heartbeat sequence"]
    ELSE [si |-> [si EXCEPT !.heartbeat_seq = @ + 1,
                            !.heartbeat_timestamp_ms = response.timestampms],
          raised |-> ""]

\* A handler that raises: the client's state travels in g, as for on_data.
GRaise(g, why) == [g EXCEPT !.raised = why]

\* exchange_state.order(order_id) is None.
IsNone(order) == order.order_id = "none"

\* exchange_state.set_order(new_order.order_id, new_order) with a new Order
\* object: an action that holds the object stored there before keeps it.
set_new_order(g, new_order) ==
    [g EXCEPT
        !.orders[new_order.order_id] = new_order,
        !.creates = [a \in DOMAIN g.creates |->
            IF g.creates[a].order = StoredRef(new_order.order_id)
            THEN [g.creates[a] EXCEPT
                     !.order = [kind |-> "detached",
                                order_id |-> new_order.order_id,
                                value |-> g.orders[new_order.order_id]]]
            ELSE g.creates[a]]]

\* _handle_orders, 'accepted' and 'rejected', without the test that the
\* action has no order yet.
handle_answer_unguarded(g, response, status) ==
    LET new_order == update_order(response, Order)
        g2 == set_new_order(g, new_order)
        found == {a \in known_actions :
                     response.client_order_id = [form |-> "int", of |-> a]}
    IN IF found = {} THEN GRaise(g2, "no matching order action")
       ELSE LET a == CHOOSE x \in found : TRUE
            IN [g2 EXCEPT !.creates[a].order = StoredRef(response.order_id),
                          !.creates[a].status = status,
                          !.state_updated = TRUE]

\* _handle_orders, 'accepted' (status SUCCESS) and 'rejected' (FAILED).
handle_answer(g, response, status) ==
    LET new_order == update_order(response, Order)
        g2 == set_new_order(g, new_order)
        found == {a \in known_actions :
                     response.client_order_id = [form |-> "int", of |-> a]}
    IN IF found = {} THEN GRaise(g2, "no matching order action")
       ELSE LET a == CHOOSE x \in found : TRUE
            IN IF g.creates[a].order # NoRef
               THEN GRaise(g2, "action already has an order")
               ELSE [g2 EXCEPT
                        !.creates[a].order = StoredRef(response.order_id),
                        !.creates[a].status = status,
                        !.state_updated = TRUE]

\* _handle_orders, 'fill' and 'closed', without the test that the order is
\* known.
handle_update_unchecked(g, response) ==
    [g EXCEPT !.orders[response.order_id] = update_order(response, @),
              !.state_updated = TRUE]

\* _handle_orders, 'fill' and 'closed'.
handle_update(g, response) ==
    IF IsNone(g.orders[response.order_id]) THEN GRaise(g, "unknown order")
    ELSE [g EXCEPT !.orders[response.order_id] = update_order(response, @),
                   !.state_updated = TRUE]

\* _handle_orders, 'cancelled' (status SUCCESS).
handle_cancelled(g, response) ==
    IF IsNone(g.orders[response.order_id]) THEN GRaise(g, "unknown order")
    ELSE IF response.order_id \notin known_cancel_actions
         THEN GRaise(g, "no matching cancel action")
    ELSE [g EXCEPT !.cancels[response.order_id].status = "SUCCESS",
                   !.state_updated = TRUE]

\* _handle_orders, 'cancel_rejected' (status FAILED).
handle_cancel_rejected(g, response) ==
    IF response.order_id \notin known_cancel_actions
    THEN GRaise(g, "no matching cancel action")
    ELSE [g EXCEPT !.cancels[response.order_id].status = "FAILED",
                   !.state_updated = TRUE]

\* _handle_orders
handle_orders(g, response) ==
    IF response.type = "subscription_ack"
    THEN IF response.filters # 0 THEN GRaise(g, "filters were registered")
         ELSE IF response.api_session_filter # 1
              THEN GRaise(g, "1 session filter expected")
         ELSE IF ~response.key_matches THEN GRaise(g, "session key mismatch")
         ELSE g
    ELSE IF response.type = "initial"
    THEN IF ~IsNone(g.orders[response.order_id])
         THEN GRaise(g, "initial for an existing order")
         ELSE [set_new_order(g, update_order(response, Order))
               EXCEPT !.state_updated = TRUE]
    ELSE IF response.type = "accepted"
    THEN handle_answer(g, response, "SUCCESS")
    ELSE IF response.type = "rejected"
    THEN handle_answer(g, response, "FAILED")
    ELSE IF response.type = "booked" THEN g
    ELSE IF response.type = "fill" THEN handle_update(g, response)
    ELSE IF response.type = "cancelled" THEN handle_cancelled(g, response)
    ELSE IF response.type = "cancel_rejected"
    THEN handle_cancel_rejected(g, response)
    ELSE IF response.type = "closed" THEN handle_update(g, response)
    ELSE GRaise(g, "unexpected response type")

\* OrderBook.set_bids_remaining / set_asks_remaining on one side of the
\* book: a level of quantity 0 is absent; deleting an absent level raises.
set_remaining(levels, at_price, remaining) ==
    IF remaining = 0
    THEN IF levels[at_price] = 0
         THEN [levels |-> levels, raised |-> "KeyError"]
         ELSE [levels |-> [levels EXCEPT ![at_price] = 0], raised |-> ""]
    ELSE [levels |-> [levels EXCEPT ![at_price] = remaining], raised |-> ""]

\* The prices a level of the order book can be at; a price is a Decimal
\* parsed from the message and can be negative.
BookLevels == {0 - 1, 90, 100}

\* The keys of a SortedDict in the order it keeps them: ascending by
\* sign * price (operator.neg for the bids, the price itself for the asks).
RECURSIVE sorted_keys(_, _)
sorted_keys(prices, sign) ==
    IF prices = {} THEN <<>>
    ELSE LET first == CHOOSE p \in prices :
                          \A q \in prices : sign * p <= sign * q
         IN <<first>> \o sorted_keys(prices \ {first}, sign)

\* OrderBook.bid_prices(): the prices of the bids, index 0 first.
bid_prices == sorted_keys({p \in BookLevels : order_book.bids[p] # 0}, 0 - 1)

\* OrderBook.asks(): the prices of the asks, index 0 first.
asks == sorted_keys({p \in BookLevels : order_book.asks[p] # 0}, 1)

\* _handle_market_data, for a message with at most one change event (side
\* "none" when it has no change event).
handle_market_data(g, response) ==
    IF response.type # "update" THEN g
    ELSE IF response.side = "none" THEN [g EXCEPT !.state_updated = TRUE]
    ELSE IF response.side = "bid"
    THEN LET r == set_remaining(g.book.bids, response.price, response.remaining)
         IN IF r.raised # "" THEN GRaise(g, r.raised)
            ELSE [g EXCEPT !.book.bids = r.levels, !.state_updated = TRUE]
    ELSE IF response.side = "ask"
    THEN LET r == set_remaining(g.book.asks, response.price, response.remaining)
         IN IF r.raised # "" THEN GRaise(g, r.raised)
            ELSE [g EXCEPT !.book.asks = r.levels, !.state_updated = TRUE]
    ELSE GRaise(g, "unexpected update side")

\* coroutines(): the market data queue is processed with
\* has_heartbeat_seq=False.
has_heartbeat_seq(s) == s = "orders"

\* _process_queue: one turn of the loop for the message it took from the
\* queue of stream s.  The result has the client's state, the exception
\* that left the loop (raised) and whether the message went through
\* _check_sequence without an exception (checked).
process_queue(s, message) ==
    LET g == [si |-> socket_info[s], orders |-> orders,
              creates |-> create_actions, cancels |-> cancel_actions,
              book |-> order_book, raised |-> "", state_updated |-> FALSE,
              checked |-> FALSE, skipped |-> FALSE]
        hb == process_heartbeat(message, g.si)
        cs == check_sequence(message, g.si)
        g1 == [g EXCEPT !.si = cs.si, !.checked = TRUE]
    IN IF message.type = "empty" THEN [g EXCEPT !.skipped = TRUE]
       ELSE IF message.type = "heartbeat"
       THEN IF has_heartbeat_seq(s)
            THEN [g EXCEPT !.si = hb.si, !.raised = hb.raised, !.skipped = TRUE]
            ELSE [g EXCEPT !.skipped = TRUE]
       ELSE IF cs.raised # "" THEN GRaise(g, cs.raised)
       ELSE IF s = "orders" THEN handle_orders(g1, message)
       ELSE handle_market_data(g1, message)

(***************************************************************************)
(* The Gemini client as a state machine.                                   *)
(***************************************************************************)
BookPrices == {100}

\* The message whose processing led to the state: the fields of it the
\* properties speak of, the socket_sequence the client expected, the
\* exception that ended the processing, whether the message passed
\* _check_sequence, whether the update publisher was notified, and the
\* heartbeat sequence and heartbeat time the socket info held before.
NoEvent ==
    [stream |-> "none", type |-> "none", socket_sequence |-> 0,
     order_id |-> "none", client_order_id |-> NoClientId, expected |-> 0,
     raised |-> "", checked |-> FALSE, notified |-> FALSE,
     side |-> "none", price |-> 0, remaining |-> 0,
     sequence |-> 0, timestampms |-> 0, heartbeat_expected |-> 0,
     heartbeat_timestamp_ms |-> None]

\* GeminiExchange.__init__, and the actions the strategy will hand over.
GInit ==
    /\ socket_info = [s \in Streams |-> SocketInfo]
    /\ qsize = [s \in Streams |-> 0]
    /\ pending_callback = [s \in Streams |-> FALSE]
    /\ orders = [o \in OrderIds |-> Order]
    /\ create_actions =
           [a \in CreateIds |->
               [status |-> "PENDING", order |-> NoRef, sent |-> FALSE]]
    /\ answers = [a \in CreateIds |-> "none"]
    /\ cancel_actions =
           [o \in CancelTargets |-> [status |-> "unset", sent |-> FALSE]]
    /\ known_actions = {}
    /\ known_cancel_actions = {}
    /\ order_book = [bids |-> [p \in BookLevels |-> 0],
                     asks |-> [p \in BookLevels |-> 0]]
    /\ event = NoEvent
    /\ stopped = FALSE

\* _listen_on_orders / _listen_on_market_data: a message is put in the
\* queue.  What the message says is settled when it is taken out.
Listen(s) ==
    /\ ~stopped
    /\ qsize[s] < MaxQueue
    /\ qsize' = [qsize EXCEPT ![s] = @ + 1]
    /\ event' = NoEvent
    /\ UNCHANGED <<socket_info, pending_callback, orders,
                   create_actions, cancel_actions, known_actions,
                   known_cancel_actions, order_book, answers, stopped>>

\* _process_queue takes message from the queue of stream s.
ProcessQueue(s, message) ==
    /\ ~stopped
    /\ qsize[s] > 0
    /\ socket_info[s].seq < MaxSeq
    /\ message.type = "heartbeat" =>
           socket_info[s].heartbeat_seq < MaxHeartbeat
    /\ LET r == process_queue(s, message)
           pending == pending_callback[s] \/ r.state_updated
           notify == /\ r.raised = ""
                     /\ ~r.skipped
                     /\ qsize[s] = 1
                     /\ pending
       IN /\ socket_info' = [socket_info EXCEPT ![s] = r.si]
          /\ orders' = r.orders
          /\ create_actions' = r.creates
          /\ cancel_actions' = r.cancels
          /\ order_book' = r.book
          /\ stopped' = (r.raised # "")
          /\ pending_callback' =
                 [pending_callback EXCEPT
                     ![s] = IF r.raised # "" \/ r.skipped THEN @
                            ELSE IF notify THEN FALSE
                            ELSE pending]
          /\ event' = [stream |-> s, type |-> message.type,
                       socket_sequence |-> message.socket_sequence,
                       order_id |-> message.order_id,
                       client_order_id |-> message.client_order_id,
                       expected |-> socket_info[s].seq, raised |-> r.raised,
                       checked |-> r.checked, notified |-> notify,
                       side |-> message.side, price |-> message.price,
                       remaining |-> message.remaining,
                       sequence |-> message.sequence,
                       timestampms |-> message.timestampms,
                       heartbeat_expected |-> socket_info[s].heartbeat_seq,
                       heartbeat_timestamp_ms |->
                           socket_info[s].heartbeat_timestamp_ms]
    /\ qsize' = [qsize EXCEPT ![s] = @ - 1]
    /\ UNCHANGED <<known_actions, known_cancel_actions>>

SeqValues == 0..MaxSeq

\* (is_live, is_cancelled) of an order event.
Flags == { <<TRUE, FALSE>>, <<FALSE, FALSE>>, <<FALSE, TRUE>> }

\* The order events about making orders, each with the socket_sequence ss.
OrderMessages(ss) ==
    {[Blank EXCEPT !.type = t, !.socket_sequence = ss, !.order_id = o] :
        t \in {"booked", "unknown"}, o \in OrderIds}
    \cup {[Blank EXCEPT !.type = t, !.socket_sequence = ss, !.order_id = o,
                        !.is_live = fl[1], !.is_cancelled = fl[2],
                        !.amounts = am] :
             t \in {"initial", "fill", "closed"},
             o \in OrderIds, fl \in Flags, am \in Amounts}
    \cup {[Blank EXCEPT !.type = t, !.socket_sequence = ss, !.order_id = o,
                        !.client_order_id = c, !.is_live = fl[1],
                        !.is_cancelled = fl[2], !.amounts = am] :
             t \in {"accepted", "rejected"},
             o \in OrderIds, c \in ClientIds, fl \in Flags, am \in Amounts}

\* The order events about cancelling orders, each with the socket_sequence
\* ss.
CancelMessages(ss) ==
    {[Blank EXCEPT !.type = t, !.socket_sequence = ss, !.order_id = o] :
        t \in {"cancelled", "cancel_rejected"}, o \in OrderIds}
    \cup {[Blank EXCEPT !.type = t, !.socket_sequence = ss, !.order_id = o,
                        !.is_live = fl[1], !.is_cancelled = fl[2],
                        !.amounts = am] :
             t \in {"initial", "fill", "closed"},
             o \in OrderIds, fl \in Flags, am \in Amounts}

\* Messages of the order events socket with any socket_sequence: the
\* frames around the order events and one order event that changes nothing.
OrderFrames ==
    {[Blank EXCEPT !.type = "empty"]}
    \cup {[Blank EXCEPT !.type = "subscription_ack", !.filters = f[1],
                        !.api_session_filter = f[2], !.key_matches = f[3]] :
             f \in { <<0, 1, TRUE>>, <<1, 1, TRUE>>, <<0, 2, TRUE>>,
                     <<0, 1, FALSE>> }}
    \cup {[Blank EXCEPT !.type = "heartbeat", !.socket_sequence = ss,
                        !.sequence = hs, !.timestampms = 1000] :
             ss \in SeqValues, hs \in 0..MaxHeartbeat}
    \cup {[Blank EXCEPT !.type = "booked", !.socket_sequence = ss,
                        !.order_id = o] :
             ss \in SeqValues, o \in OrderIds}

\* The messages the market data socket may deliver.
MarketMessages ==
    {[Blank EXCEPT !.type = "empty"]}
    \cup {[Blank EXCEPT !.type = "subscription_ack"]}
    \cup {[Blank EXCEPT !.type = "heartbeat", !.socket_sequence = ss] :
             ss \in SeqValues}
    \cup {[Blank EXCEPT !.type = t, !.socket_sequence = ss] :
             t \in {"update", "unknown"}, ss \in SeqValues}
    \cup {[Blank EXCEPT !.type = "update", !.socket_sequence = ss,
                        !.side = sd, !.price = p, !.remaining = q] :
             ss \in SeqValues, sd \in {"bid", "ask", "auction"},
             p \in BookPrices, q \in {0, 5}}

\* An order event about making orders arrives in sequence.
ProcessOrders ==
    /\ \E message \in OrderMessages(socket_info["orders"].seq) :
           ProcessQueue("orders", message)
    /\ UNCHANGED answers

\* An order event about cancelling orders arrives in sequence.
ProcessCancels ==
    /\ \E message \in CancelMessages(socket_info["orders"].seq) :
           ProcessQueue("orders", message)
    /\ UNCHANGED answers

\* A frame of the order events socket with any sequence numbers.
ProcessOrderFrames ==
    /\ \E message \in OrderFrames : ProcessQueue("orders", message)
    /\ UNCHANGED answers

\* A message of the market data socket with any sequence number.
ProcessMarketData ==
    /\ \E message \in MarketMessages : ProcessQueue("market_data", message)
    /\ UNCHANGED answers

\* The change events of the market data socket, each with the
\* socket_sequence ss: a side, a price and the quantity that remains there.
BookMessages(ss) ==
    {[Blank EXCEPT !.type = "update", !.socket_sequence = ss,
                   !.side = sd, !.price = p, !.remaining = q] :
        sd \in {"bid", "ask"}, p \in BookLevels, q \in {0, 5, 0 - 5}}

\* A change event of the market data socket arrives in sequence.
ProcessBookUpdate ==
    /\ \E message \in BookMessages(socket_info["market_data"].seq) :
           ProcessQueue("market_data", message)
    /\ UNCHANGED answers

\* _post_http_request when the first `failures` responses are not ok: TRUE
\* when it returns a response, FALSE when it raises.
post_http_request(failures) == failures < request_retry_limit

GUnchangedByExecute ==
    /\ event' = NoEvent
    /\ UNCHANGED <<socket_info, qsize, pending_callback, orders,
                   known_actions, known_cancel_actions, order_book, answers>>

\* execute_action(action) for the CreateOrder a whose exchange is exchange.
ExecuteCreate(a, exchange, failures) ==
    /\ ~stopped
    /\ ~create_actions[a].sent
    /\ IF exchange = "gemini" /\ post_http_request(failures)
       THEN /\ create_actions' = [create_actions EXCEPT ![a].sent = TRUE]
            /\ stopped' = FALSE
       ELSE /\ UNCHANGED create_actions
            /\ stopped' = TRUE
    /\ UNCHANGED cancel_actions
    /\ GUnchangedByExecute

\* execute_action(action) for the CancelOrder of order o.
ExecuteCancel(o, exchange, failures) ==
    /\ ~stopped
    /\ ~cancel_actions[o].sent
    /\ IF exchange = "gemini" /\ post_http_request(failures)
       THEN /\ cancel_actions' = [cancel_actions EXCEPT ![o].sent = TRUE]
            /\ stopped' = FALSE
       ELSE /\ UNCHANGED cancel_actions
            /\ stopped' = TRUE
    /\ UNCHANGED create_actions
    /\ GUnchangedByExecute

Failures == {0, request_retry_limit - 1, request_retry_limit}

\* The loop of _post_http_request stops at the second response at the
\* latest.
post_attempts_twice(i, failures, limit) ==
    IF i >= 2 THEN [attempts |-> i, headers |-> i, success |-> FALSE]
    ELSE IF i >= failures
         THEN [attempts |-> i + 1, headers |-> i + 1, success |-> TRUE]
         ELSE [attempts |-> 2, headers |-> 2, success |-> FALSE]

\* The loop of _post_http_request from its turn i on, when the first
\* `failures` responses are not ok: each turn makes the headers anew and
\* posts; the loop ends with the first response that is ok, or after
\* limit turns.
RECURSIVE post_attempts(_, _, _)
post_attempts(i, failures, limit) ==
    IF i >= limit THEN [attempts |-> i, headers |-> i, success |-> FALSE]
    ELSE IF i >= failures
         THEN [attempts |-> i + 1, headers |-> i + 1, success |-> TRUE]
         ELSE post_attempts(i + 1, failures, limit)

NoPost ==
    [kind |-> "none", exchange |-> "none", failures |-> 0, attempts |-> 0,
     headers |-> 0, raised |-> FALSE, status_before |-> "none",
     status_after |-> "none"]

\* What execute_action did for an action of exchange `exchange`: it posts
\* only when the action is for this client.
Posted(kind, exchange, failures, before, after) ==
    LET r == IF exchange = "gemini"
             THEN post_attempts(0, failures, request_retry_limit)
             ELSE [attempts |-> 0, headers |-> 0, success |-> FALSE]
    IN [kind |-> kind, exchange |-> exchange, failures |-> failures,
        attempts |-> r.attempts, headers |-> r.headers,
        raised |-> ~r.success, status_before |-> before,
        status_after |-> after]

\* execute_action(action) for the CreateOrder a, with its requests.
PostsCreate(a, exchange, failures) ==
    /\ ExecuteCreate(a, exchange, failures)
    /\ request' = Posted("create", exchange, failures,
                         create_actions[a].status, create_actions'[a].status)

\* execute_action(action) for the CancelOrder of order o, with its requests.
PostsCancel(o, exchange, failures) ==
    /\ ExecuteCancel(o, exchange, failures)
    /\ request' = Posted("cancel", exchange, failures,
                         cancel_actions[o].status, cancel_actions'[o].status)

HNext ==
    \/ \E a \in CreateIds, exchange \in Venues,
          failures \in 0..request_retry_limit :
           PostsCreate(a, exchange, failures)
    \/ \E o \in CancelTargets, exchange \in Venues,
          failures \in 0..request_retry_limit :
           PostsCancel(o, exchange, failures)
    \/ Listen("orders") /\ UNCHANGED request

\* exchange._actions = [action], as the tests of the client set it up
\* before the client handles a message.
SetActions(a) ==
    /\ ~stopped
    /\ socket_info["orders"].seq = 0
    /\ known_actions # {a}
    /\ known_actions' = {a}
    /\ event' = NoEvent
    /\ UNCHANGED <<socket_info, qsize, pending_callback, orders,
                   create_actions, cancel_actions, known_cancel_actions,
                   order_book, answers, stopped>>

\* exchange._cancel_actions = {order_id: cancel_action}, as the tests of the
\* client set it up before the client handles a message.
SetCancelActions(o) ==
    /\ ~stopped
    /\ socket_info["orders"].seq = 0
    /\ known_cancel_actions # {o}
    /\ known_cancel_actions' = {o}
    /\ event' = NoEvent
    /\ UNCHANGED <<socket_info, qsize, pending_callback, orders,
                   create_actions, cancel_actions, known_actions,
                   order_book, answers, stopped>>

\* The client making orders, its order events arriving in sequence.
GNext ==
    \/ Listen("orders")
    \/ ProcessOrders
    \/ \E a \in CreateIds, exchange \in Venues, failures \in Failures :
           ExecuteCreate(a, exchange, failures)
    \/ \E a \in CreateIds : SetActions(a)

\* The client cancelling orders, its order events arriving in sequence.
CNext ==
    \/ Listen("orders")
    \/ ProcessCancels
    \/ \E o \in CancelTargets, exchange \in Venues, failures \in Failures :
           ExecuteCancel(o, exchange, failures)
    \/ \E o \in CancelTargets : SetCancelActions(o)

\* The two sockets of the client with messages of any sequence number.
QNext ==
    \/ \E s \in Streams : Listen(s)
    \/ ProcessOrderFrames
    \/ ProcessMarketData

\* The market data socket of the client, its change events in sequence.
BNext ==
    \/ Listen("market_data")
    \/ ProcessBookUpdate

(***************************************************************************)
(* The GDAX exchange client (gdax.py).                                     *)
(***************************************************************************)
GdaxPrices == {90, 100}

\* Quote(price, quantity)
Quote(price, quantity) == [price |-> price, quantity |-> quantity]

\* SortedQuotes.set_quote: quantity 0 removes the level and does nothing
\* when there is none; a negative price or quantity is an error.
set_quote(levels, quote) ==
    IF quote.price < 0 \/ quote.quantity < 0
    THEN [levels |-> levels, raised |-> "negative quote"]
    ELSE [levels |-> [levels EXCEPT ![quote.price] = quote.quantity],
          raised |-> ""]

\* The loops of _handle_snapshot and _handle_l2_update over one side:
\* set_quote for each quote of the list, in its order.
RECURSIVE set_quotes(_, _)
set_quotes(levels, quotes) ==
    IF quotes = <<>> THEN [levels |-> levels, raised |-> ""]
    ELSE LET r == set_quote(levels, Head(quotes))
         IN IF r.raised # "" THEN r ELSE set_quotes(r.levels, Tail(quotes))

\* The fields of a GDAX message the client reads.
GdaxBlank ==
    [type |-> "none", bids |-> <<>>, asks |-> <<>>, side |-> "none",
     price |-> 0, quantity |-> 0, channels_ok |-> TRUE, in_time |-> TRUE]

\* _handle_snapshot
handle_snapshot(x, order_book_snapshot) ==
    LET b == set_quotes(x.book.bids, order_book_snapshot.bids)
        a == set_quotes(x.book.asks, order_book_snapshot.asks)
    IN IF b.raised # "" THEN [x EXCEPT !.raised = b.raised]
       ELSE IF a.raised # ""
            THEN [x EXCEPT !.book.bids = b.levels, !.raised = a.raised]
       ELSE [x EXCEPT !.book.bids = b.levels, !.book.asks = a.levels,
                      !.ready = TRUE]

\* _handle_l2_update, for a message with one change.
handle_l2_update(x, order_book_update) ==
    LET quote == Quote(order_book_update.price, order_book_update.quantity)
        b == set_quote(x.book.bids, quote)
        a == set_quote(x.book.asks, quote)
    IN IF order_book_update.side = "buy"
       THEN [x EXCEPT !.book.bids = b.levels, !.raised = b.raised]
       ELSE IF order_book_update.side = "sell"
       THEN [x EXCEPT !.book.asks = a.levels, !.raised = a.raised]
       ELSE [x EXCEPT !.raised = "unexpected update side"]

\* _handle_heartbeat: in_time says that the heartbeat's time is 0.5 s to
\* 1.5 s after the last one's.
handle_heartbeat(x, heartbeat) ==
    IF ~x.heartbeat THEN [x EXCEPT !.heartbeat = TRUE]
    ELSE IF ~heartbeat.in_time THEN [x EXCEPT !.raised = "heartbeat time"]
    ELSE x

\* _handle_message
handle_message(x, message) ==
    IF message.type = "snapshot" THEN handle_snapshot(x, message)
    ELSE IF message.type = "subscriptions"
    THEN IF message.channels_ok THEN x
         ELSE [x EXCEPT !.raised = "unexpected channels"]
    ELSE IF message.type = "heartbeat" THEN handle_heartbeat(x, message)
    ELSE IF message.type = "l2update" THEN handle_l2_update(x, message)
    ELSE IF message.type \in {"received", "open", "done", "match", "change"}
    THEN [x EXCEPT !.raised = "NotImplementedError"]
    ELSE [x EXCEPT !.raised = "unexpected response"]

NoGdaxEvent ==
    [type |-> "none", bids |-> <<>>, asks |-> <<>>, raised |-> "",
     called_back |-> FALSE]

\* GdaxExchange.__init__
XInit ==
    /\ gdax_book = [bids |-> [p \in GdaxPrices |-> 0],
                    asks |-> [p \in GdaxPrices |-> 0]]
    /\ order_book_ready = FALSE
    /\ last_heartbeat_time = FALSE
    /\ gdax_qsize = 0
    /\ gdax_event = NoGdaxEvent
    /\ gdax_stopped = FALSE

\* _listen_websocket_feed: a message is put in _message_queue.  What the
\* message says is settled when it is taken out.
GdaxListen ==
    /\ ~gdax_stopped
    /\ gdax_qsize < MaxQueue
    /\ gdax_qsize' = gdax_qsize + 1
    /\ gdax_event' = NoGdaxEvent
    /\ UNCHANGED <<gdax_book, order_book_ready, last_heartbeat_time,
                   gdax_stopped>>

\* _process_websocket_messages: one turn of the loop for the message it
\* took from the queue; callback_raises says whether _on_update_callback,
\* when it is called, raises.
GdaxProcess(message, callback_raises) ==
    /\ ~gdax_stopped
    /\ gdax_qsize > 0
    /\ LET x == [book |-> gdax_book, ready |-> order_book_ready,
                 heartbeat |-> last_heartbeat_time, raised |-> ""]
           r == handle_message(x, message)
           called_back == r.raised = "" /\ gdax_qsize = 1
           raised == IF r.raised # "" THEN r.raised
                     ELSE IF called_back /\ callback_raises
                          THEN "callback raised"
                     ELSE ""
       IN /\ gdax_book' = r.book
          /\ order_book_ready' = r.ready
          /\ last_heartbeat_time' = r.heartbeat
          /\ gdax_stopped' = (raised # "")
          /\ gdax_event' = [type |-> message.type, bids |-> message.bids,
                            asks |-> message.asks, raised |-> raised,
                            called_back |-> called_back]
    /\ gdax_qsize' = gdax_qsize - 1

\* The messages the GDAX websocket may deliver.
GdaxMessages ==
    {[GdaxBlank EXCEPT !.type = "snapshot", !.bids = b, !.asks = a] :
        b \in { <<>>, <<Quote(90, 5)>>, <<Quote(100, 7), Quote(90, 5)>> },
        a \in { <<>>, <<Quote(100, 5)>> }}
    \cup {[GdaxBlank EXCEPT !.type = "l2update", !.side = sd, !.price = p,
                            !.quantity = q] :
             sd \in {"buy", "sell", "auction"}, p \in GdaxPrices,
             q \in {0, 5, 0 - 5}}
    \cup {[GdaxBlank EXCEPT !.type = "subscriptions", !.channels_ok = ok] :
             ok \in BOOLEAN}
    \cup {[GdaxBlank EXCEPT !.type = "heartbeat", !.in_time = ok] :
             ok \in BOOLEAN}
    \cup {[GdaxBlank EXCEPT !.type = t] :
             t \in {"received", "open", "done", "match", "change", "unknown"}}

\* _watchdog: no heartbeat was processed within the latency limit.
GdaxWatchdog ==
    /\ ~gdax_stopped
    /\ last_heartbeat_time
    /\ gdax_stopped' = TRUE
    /\ gdax_event' = [NoGdaxEvent EXCEPT !.raised = "no heartbeat"]
    /\ UNCHANGED <<gdax_book, order_book_ready, last_heartbeat_time,
                   gdax_qsize>>

\* The coroutines of run_task().
XNext ==
    \/ GdaxListen
    \/ GdaxWatchdog
    \/ \E message \in GdaxMessages, callback_raises \in BOOLEAN :
           GdaxProcess(message, callback_raises)

(***************************************************************************)
(* The heartbeats and the watchdog of the GDAX client in time.  Times are  *)
(* whole hundredths of a second; the feed opens at time 0.                 *)
(***************************************************************************)
Seconds(n) == n * 100

\* The clock stops at this time, in hundredths of a second.
MaxClock == 2500

\* self._exchange_latency_limit = 10
exchange_latency_limit == 10

\* self._exchange_latency_check_interval = 5
exchange_latency_check_interval == 5

\* The amounts of time that pass in one step.
TimeSteps == {50, 100, 500}

\* The time of a heartbeat less the time of the one before it.
HeartbeatDeltas == {0 - 100, 0, 49, 50, 100, 150, 151}

\* datetime.timedelta(seconds=0.5) and datetime.timedelta(seconds=1.5)
HalfSecond == Seconds(1) \div 2

\* A heartbeat check whose window leaves out its two ends.
handle_heartbeat_time_open(last_time, heartbeat_time) ==
    LET delta == heartbeat_time - last_time
    IN IF last_time = None THEN [last |-> heartbeat_time, raised |-> ""]
       ELSE IF delta <= HalfSecond \/ delta >= 3 * HalfSecond
            THEN [last |-> last_time, raised |-> "heartbeat time"]
       ELSE [last |-> heartbeat_time, raised |-> ""]

\* _handle_heartbeat with the times themselves: _last_heartbeat_time after
\* the call and the exception it raised.
handle_heartbeat_time(last_time, heartbeat_time) ==
    LET delta == heartbeat_time - last_time
    IN IF last_time = None THEN [last |-> heartbeat_time, raised |-> ""]
       ELSE IF delta < HalfSecond \/ delta > 3 * HalfSecond
            THEN [last |-> last_time, raised |-> "heartbeat time"]
       ELSE [last |-> heartbeat_time, raised |-> ""]

\* A watchdog check that raises before any heartbeat was handled.
watchdog_check_from_open(last_time, utc_now) ==
    IF last_time = None THEN utc_now > Seconds(exchange_latency_limit)
    ELSE utc_now - last_time > Seconds(exchange_latency_limit)

\* _watchdog, the body of its loop after the sleep: TRUE when it raises.
watchdog_check(last_time, utc_now) ==
    IF last_time = None THEN FALSE
    ELSE utc_now - last_time > Seconds(exchange_latency_limit)

NoBeat == [handled |-> FALSE, time |-> 0, before |-> None, raised |-> ""]

NoWatch == [woke |-> FALSE, now |-> 0, last |-> None, raised |-> FALSE]

\* GdaxExchange.__init__ and run_task(): the watchdog starts its first
\* sleep as the feed opens.
FeedInit ==
    /\ clock = 0
    /\ last_heartbeat_at = None
    /\ watchdog_wakes = Seconds(exchange_latency_check_interval)
    /\ beat = NoBeat
    /\ watch = NoWatch
    /\ feed_stopped = FALSE

\* Time passes, by d hundredths of a second, up to the end of the
\* watchdog's sleep.
TimePasses(d) ==
    /\ ~feed_stopped
    /\ clock + d <= watchdog_wakes
    /\ clock + d <= MaxClock
    /\ clock' = clock + d
    /\ beat' = NoBeat
    /\ watch' = NoWatch
    /\ UNCHANGED <<last_heartbeat_at, watchdog_wakes, feed_stopped>>

\* The times a heartbeat handled now may carry: the first one the time of
\* its handling, a later one a time around one second after the last.
HeartbeatTimes ==
    IF last_heartbeat_at = None THEN {clock}
    ELSE {t \in {last_heartbeat_at + d : d \in HeartbeatDeltas} : t <= clock}

\* _process_websocket_messages hands a heartbeat to _handle_heartbeat.
HandlesHeartbeat(heartbeat_time) ==
    /\ ~feed_stopped
    /\ LET r == handle_heartbeat_time(last_heartbeat_at, heartbeat_time)
       IN /\ last_heartbeat_at' = r.last
          /\ feed_stopped' = (r.raised # "")
          /\ beat' = [handled |-> TRUE, time |-> heartbeat_time,
                      before |-> last_heartbeat_at, raised |-> r.raised]
    /\ watch' = NoWatch
    /\ UNCHANGED <<clock, watchdog_wakes>>

\* _watchdog: the sleep ends, the check is made and the next sleep begins.
WatchdogWakes ==
    /\ ~feed_stopped
    /\ clock = watchdog_wakes
    /\ LET raised == watchdog_check(last_heartbeat_at, clock)
       IN /\ feed_stopped' = raised
          /\ watch' = [woke |-> TRUE, now |-> clock,
                       last |-> last_heartbeat_at, raised |-> raised]
    /\ watchdog_wakes' = clock + Seconds(exchange_latency_check_interval)
    /\ beat' = NoBeat
    /\ UNCHANGED <<clock, last_heartbeat_at>>

\* The heartbeats of the feed and the watchdog of run_task().
WNext ==
    \/ \E d \in TimeSteps : TimePasses(d)
    \/ \E heartbeat_time \in HeartbeatTimes : HandlesHeartbeat(heartbeat_time)
    \/ WatchdogWakes

(***************************************************************************)
(* The trader (trader.py): start() runs the tasks of the exchange clients  *)
(* and of the timer on one event loop until one of them raises.            *)
(***************************************************************************)
TaskIds == {"timer", "gdax", "gemini"}

\* Trader.__init__ and the tasks start() creates.
TraderInit ==
    /\ tasks = [t \in TaskIds |-> "pending"]
    /\ loop_closed = FALSE

\* The event loop runs a step of task t; the step may end the task with an
\* exception.
RunsTask(t, raises) ==
    /\ ~loop_closed
    /\ tasks[t] = "pending"
    /\ tasks' = IF raises THEN [tasks EXCEPT ![t] = "raised"] ELSE tasks
    /\ UNCHANGED loop_closed

\* Timer._do_every: tick() evaluates max(diff, 0) with diff a timedelta,
\* which is a TypeError, before the first sleep; f is never called.
do_every ==
    /\ RunsTask("timer", TRUE)
    /\ UNCHANGED <<avars, gvars, xvars>>

\* _process_websocket_messages with the callback the strategy registered
\* for the exchange it buys on: on_update runs when the queue is empty,
\* and an exception of on_data leaves the callback.
GdaxNotifies(message) ==
    \E callback_raises \in BOOLEAN :
        /\ GdaxProcess(message, callback_raises)
        /\ IF gdax_event'.called_back
           THEN OnUpdate /\ halted' = callback_raises
           ELSE ~callback_raises /\ UNCHANGED avars

\* The messages the GDAX websocket delivers as the client starts.
StartupMessages ==
    {message \in GdaxMessages :
        \/ message.type \in {"subscriptions", "heartbeat"}
        \/ /\ message.type = "snapshot"
           /\ message.bids = <<Quote(90, 5)>>
           /\ message.asks = <<Quote(100, 5)>>}

\* A step of the GDAX client's task.
GdaxTask ==
    /\ \/ GdaxListen /\ UNCHANGED avars
       \/ GdaxWatchdog /\ UNCHANGED avars
       \/ \E message \in StartupMessages : GdaxNotifies(message)
    /\ RunsTask("gdax", gdax_stopped')
    /\ UNCHANGED gvars

\* A heartbeat of the market data socket with any sequence number.
ProcessMarketHeartbeat ==
    /\ \E message \in MarketMessages :
           /\ message.type = "heartbeat"
           /\ ProcessQueue("market_data", message)
    /\ UNCHANGED answers

\* A step of the Gemini client's task.
GeminiTask ==
    /\ Listen("market_data") \/ ProcessMarketHeartbeat
    /\ RunsTask("gemini", stopped')
    /\ UNCHANGED <<avars, xvars>>

\* The pending tasks are left as they are.
cancel_none(ts) == ts

\* start(): the tasks that are still pending are cancelled.
cancel_pending(ts) ==
    [t \in TaskIds |-> IF ts[t] = "pending" THEN "cancelled" ELSE ts[t]]

\* start() after asyncio.wait(tasks, return_when=FIRST_EXCEPTION): a task
\* has raised; the exception is logged, the pending tasks are cancelled
\* and waited for, for two seconds at most, and the loop is stopped and
\* closed.
start ==
    /\ ~loop_closed
    /\ \E t \in TaskIds : tasks[t] = "raised"
    /\ tasks' = cancel_pending(tasks)
    /\ loop_closed' = TRUE
    /\ UNCHANGED <<avars, gvars, xvars>>

TNext ==
    \/ do_every
    \/ GdaxTask
    \/ GeminiTask
    \/ start

(***************************************************************************)
(* The calls of on_data on the event loop.  The loop has one thread: it    *)
(* runs a task until the task awaits, and only then another one.  on_timer *)
(* is called by the timer's task and on_update by the task of the client   *)
(* that notifies; both call on_data, which is a plain function.            *)
(***************************************************************************)
MaxCalls == 2

Callers == {"on_timer", "on_update"}

\* on_data awaits in the balance refresh.
suspends_in_refresh(pc) == pc = "called"

\* Whether on_data gives the thread back to the loop at pc: never, neither
\* on_data nor balance(force_update=True), update_balance() and the
\* add action callback it calls are coroutines.
suspends(pc) == FALSE

\* The loop can run a task: no call is on the thread, or the call on the
\* thread is suspended.
LoopFree == IF calls = <<>> THEN TRUE ELSE suspends(Head(calls).pc)

\* A task calls on_timer or on_update, which calls on_data.
CallsOnData(caller) ==
    /\ ~halted
    /\ LoopFree
    /\ Len(calls) < MaxCalls
    /\ calls' = <<[caller |-> caller, pc |-> "called"]>> \o calls
    /\ UNCHANGED avars

\* on_data up to balance(force_update=True) of _create_bid_limit_order,
\* which is update_balance() of the client: a REST call made with requests.
RefreshesBalance ==
    /\ calls # <<>>
    /\ Head(calls).pc = "called"
    /\ calls' = [calls EXCEPT ![1].pc = "refreshed"]
    /\ UNCHANGED avars

\* on_data with the balance read: it changes its fields and hands its
\* actions to the add action callback; an exception ends the call.
EnqueuesActions ==
    /\ calls # <<>>
    /\ Head(calls).pc = "refreshed"
    /\ \/ Head(calls).caller = "on_timer" /\ OnTimer
       \/ Head(calls).caller = "on_update" /\ OnUpdate
    /\ calls' = IF halted' THEN Tail(calls)
                ELSE [calls EXCEPT ![1].pc = "enqueued"]

\* on_data returns to on_timer or on_update, which returns to the task.
Returns ==
    /\ calls # <<>>
    /\ Head(calls).pc = "enqueued"
    /\ calls' = Tail(calls)
    /\ UNCHANGED avars

\* The loop runs a step of another task: the actions are taken from the
\* queue and an exchange client processes a message.
RunsOtherTask ==
    /\ LoopFree
    /\ \/ Dispatch
       \/ VenueAccepts
       \/ VenueRejects
       \/ \E f \in FillLevels, closes \in BOOLEAN : VenueFills(f, closes)
       \/ \E is_cancelled \in BOOLEAN : VenueCloses(is_cancelled)
       \/ \E status \in {"PENDING", "SUCCESS", "FAILED"} :
              VenueAnswersCancel(status)
    /\ UNCHANGED calls

RNext ==
    \/ \E caller \in Callers : CallsOnData(caller)
    \/ RefreshesBalance
    \/ EnqueuesActions
    \/ Returns
    \/ RunsOtherTask

(***************************************************************************)
(* The publishers of the exchange states (exchanges.py) as initialize()    *)
(* of the strategy leaves them.                                            *)
(***************************************************************************)
\* Publisher.add_callback: _update_callbacks is a set.
add_callback(callbacks, callback) == callbacks \cup {callback}

\* initialize(): on_update is added, twice, to the update publisher of the
\* exchange to buy on, and to no other publisher.
initialize(buy_on) ==
    [v \in Venues |->
        IF v = buy_on
        THEN add_callback(add_callback({}, "on_update"), "on_update")
        ELSE {}]

\* The parameters of a callback beside self: on_update(publisher_id,
\* update_description).
Parameters(callback) == IF callback = "on_update" THEN 2 ELSE 0

\* Publisher.notify: every callback is called, with one argument when the
\* publisher has data and with none when it has not.  invoked counts the
\* calls that reach on_data.
notify(callbacks, has_data) ==
    LET nargs == IF has_data THEN 1 ELSE 0
    IN [invoked |-> Cardinality({c \in callbacks : Parameters(c) = nargs}),
        raised |-> IF \E c \in callbacks : Parameters(c) # nargs
                   THEN "TypeError" ELSE ""]

NoNotification ==
    [source |-> "none", has_data |-> FALSE, invoked |-> 0, raised |-> ""]

NotifyInit ==
    /\ update_callbacks = initialize(exchange_buy_on)
    /\ notification = NoNotification

\* The client of exchange v has changed its exchange state and notifies.
Notifies(v, has_data) ==
    /\ ~halted
    /\ ~loop_closed
    /\ LET r == notify(update_callbacks[v], has_data)
       IN /\ notification' = [source |-> v, has_data |-> has_data,
                              invoked |-> r.invoked, raised |-> r.raised]
          /\ IF r.invoked > 0 THEN OnUpdate ELSE UNCHANGED avars
    /\ UNCHANGED <<update_callbacks, tvars>>

\* The order book of the exchange to sell on changes.
BookChanges ==
    /\ ~loop_closed
    /\ BookUpdate
    /\ UNCHANGED <<nvars, tvars>>

\* The timer's task, which initialize() made with do_every, takes its step.
TimerRuns ==
    /\ do_every
    /\ notification' = [NoNotification EXCEPT !.source = "timer",
                                               !.raised = "TypeError"]
    /\ UNCHANGED update_callbacks

\* start() goes on after the exception.
TraderStops ==
    /\ start
    /\ UNCHANGED nvars

NNext ==
    \/ \E v \in Venues, has_data \in BOOLEAN : Notifies(v, has_data)
    \/ BookChanges
    \/ TimerRuns
    \/ TraderStops

(***************************************************************************)
(* execute_action of the GDAX exchange client.                             *)
(***************************************************************************)
\* The actions a caller may give to execute_action.
GdaxActions ==
    {CreateOrder(v, "BID", "LIMIT", BidAmount, p) :
        v \in Venues, p \in GdaxPrices}
    \cup {CreateOrder("gdax", "ASK", "MARKET", BidAmount, 0)}
    \cup {CancelOrder(o, v) : o \in {"1", "2"}, v \in Venues}

\* _send_http_request: an exception when the status code of the response
\* is not ok.
send_http_request(response_ok) == IF response_ok THEN "" ELSE "Exception"

\* execute_action(action) with the response of the exchange to the request
\* it sends.  Nothing in it assigns to the action.
execute_action(e, action, response_ok) ==
    IF ~e.authenticate
    THEN [e EXCEPT !.raised = "InvalidOperationError"]
    ELSE IF action.exchange # "gdax"
    THEN [e EXCEPT !.raised = "InvalidOperationError"]
    ELSE IF action.kind = "create"
    THEN [e EXCEPT !.creates = Append(@, action), !.sent = TRUE,
                   !.raised = send_http_request(response_ok)]
    ELSE [e EXCEPT !.cancels = @ \cup {action.order_id}, !.sent = TRUE,
                   !.raised = send_http_request(response_ok)]

NoRequest ==
    [action |-> NoAction, sent |-> FALSE, response_ok |-> FALSE,
     raised |-> ""]

ExecInit ==
    /\ gdax_authenticate \in BOOLEAN
    /\ gdax_create_actions = <<>>
    /\ gdax_cancel_actions = {}
    /\ gdax_request = NoRequest

\* A caller gives action to execute_action.
GdaxExecute(action, response_ok) ==
    /\ Len(gdax_create_actions) < MaxOrders
    /\ LET e == [authenticate |-> gdax_authenticate,
                 creates |-> gdax_create_actions,
                 cancels |-> gdax_cancel_actions, action |-> action,
                 sent |-> FALSE, raised |-> ""]
           r == execute_action(e, action, response_ok)
       IN /\ gdax_create_actions' = r.creates
          /\ gdax_cancel_actions' = r.cancels
          /\ gdax_request' = [action |-> r.action, sent |-> r.sent,
                              response_ok |-> response_ok,
                              raised |-> r.raised]
    /\ UNCHANGED gdax_authenticate

ENext ==
    \E action \in GdaxActions, response_ok \in BOOLEAN :
        GdaxExecute(action, response_ok)

\* The objects as their constructors leave them.
Constructed ==
    /\ AInit /\ GInit /\ XInit /\ TraderInit /\ calls = <<>>
    /\ NotifyInit /\ ExecInit /\ request = NoPost
    /\ FeedInit

Init == Constructed /\ gdax_authenticate

\* The client runs while the strategy is in one of its initial states.
ClientInit ==
    /\ Init
    /\ exchange_sell_on = "gemini"
    /\ sell_bids = <<[price |-> 100, quantity |-> 20]>>

ASpec == Init /\ [][ANext /\ UNCHANGED <<gvars, xvars, tvars, rvars, nvars, evars, hvars, wvars>>]_vars

GSpec == ClientInit /\ [][GNext /\ UNCHANGED <<avars, xvars, tvars, rvars, nvars, evars, hvars, wvars>>]_vars

CSpec == ClientInit /\ [][CNext /\ UNCHANGED <<avars, xvars, tvars, rvars, nvars, evars, hvars, wvars>>]_vars

QSpec == ClientInit /\ [][QNext /\ UNCHANGED <<avars, xvars, tvars, rvars, nvars, evars, hvars, wvars>>]_vars

BSpec == ClientInit /\ [][BNext /\ UNCHANGED <<avars, xvars, tvars, rvars, nvars, evars, hvars, wvars>>]_vars

XSpec == ClientInit /\ [][XNext /\ UNCHANGED <<avars, gvars, tvars, rvars, nvars, evars, hvars, wvars>>]_vars

\* The event loop runs a task that can go on, and start() goes on when a
\* task has raised.
TSpec ==
    /\ ClientInit
    /\ [][TNext /\ UNCHANGED <<rvars, nvars, evars, hvars, wvars>>]_vars
    /\ WF_vars(do_every /\ UNCHANGED <<rvars, nvars, evars, hvars, wvars>>)
    /\ WF_vars(start /\ UNCHANGED <<rvars, nvars, evars, hvars, wvars>>)

\* The strategy with its callers on the event loop, and the exchange
\* clients as the strategy sees them.
RSpec ==
    ClientInit /\ [][RNext /\ UNCHANGED <<gvars, xvars, tvars, nvars, evars, hvars, wvars>>]_vars

\* execute_action of the Gemini client with the exchange answering each
\* attempt, while the order events socket delivers messages.
HSpec == ClientInit /\ [][HNext /\ UNCHANGED <<avars, xvars, tvars, rvars, nvars, evars, wvars>>]_vars

\* The GDAX feed's heartbeats and watchdog as time passes.
WSpec ==
    ClientInit /\ [][WNext /\ UNCHANGED <<avars, gvars, xvars, tvars, rvars, nvars, evars, hvars>>]_vars

\* The publishers of the exchange states and the timer, once the strategy
\* has been initialized.
NSpec == Init /\ [][NNext /\ UNCHANGED <<gvars, xvars, rvars, evars, hvars, wvars>>]_vars

\* execute_action of GDAX clients made with and without credentials.
ESpec ==
    /\ Constructed
    /\ exchange_sell_on = "gemini"
    /\ sell_bids = <<[price |-> 100, quantity |-> 20]>>
    /\ [][ENext /\ UNCHANGED <<avars, gvars, xvars, tvars, rvars, nvars, hvars, wvars>>]_vars

(***************************************************************************)
(* The client as it runs with the exchange: the strategy's actions reach   *)
(* execute_action, the exchange answers every order it                     *)
(* receives with an 'accepted' or a 'rejected' event that carries the      *)
(* client_order_id it was sent and the next socket_sequence, and the       *)
(* market data socket delivers its updates in sequence.                    *)
(***************************************************************************)
\* The exchange received the order of a and answers it.
VenueAnswers(a) ==
    /\ ~stopped
    /\ create_actions[a].sent
    /\ answers[a] = "none"
    /\ qsize["orders"] < MaxQueue
    /\ answers' = [answers EXCEPT ![a] = "queued"]
    /\ qsize' = [qsize EXCEPT !["orders"] = @ + 1]
    /\ event' = NoEvent
    /\ UNCHANGED <<socket_info, pending_callback, orders, create_actions,
                   cancel_actions, known_actions, known_cancel_actions,
                   order_book, stopped>>

\* The answer of the exchange to the order of a, of type t.
AnswerMessage(a, t) ==
    [Blank EXCEPT
        !.type = t,
        !.socket_sequence = socket_info["orders"].seq,
        !.order_id = CHOOSE o \in OrderIds : IsNone(orders[o]),
        !.client_order_id = [form |-> "str", of |-> a],
        !.is_live = (t = "accepted"),
        !.amounts = [original_amount |-> 2, executed_amount |-> None,
                     remaining_amount |-> None]]

\* _process_queue takes the answer to the order of a from the queue.
ProcessAnswer(a) ==
    /\ answers[a] = "queued"
    /\ answers' = [answers EXCEPT ![a] = "taken"]
    /\ \E t \in {"accepted", "rejected"} :
           ProcessQueue("orders", AnswerMessage(a, t))

\* A market data update arrives in sequence.
ProcessMarketUpdate ==
    /\ \E message \in MarketMessages :
           /\ message.type = "update"
           /\ message.side \in {"none", "bid", "ask"}
           /\ message.socket_sequence = socket_info["market_data"].seq
           /\ message.remaining = 0 =>
                  /\ message.side = "bid" => order_book.bids[message.price] # 0
                  /\ message.side = "ask" => order_book.asks[message.price] # 0
           /\ ProcessQueue("market_data", message)
    /\ UNCHANGED answers

PNext ==
    \/ \E a \in CreateIds, failures \in 0..(request_retry_limit - 1) :
           ExecuteCreate(a, "gemini", failures)
    \/ \E o \in CancelTargets, failures \in 0..(request_retry_limit - 1) :
           ExecuteCancel(o, "gemini", failures)
    \/ \E a \in CreateIds : VenueAnswers(a)
    \/ \E a \in CreateIds : ProcessAnswer(a)
    \/ Listen("market_data")
    \/ ProcessMarketUpdate

\* The event loop runs a coroutine that can go on: a queue that holds a
\* message is read.
PSpec ==
    /\ ClientInit
    /\ [][PNext /\ UNCHANGED <<avars, xvars, tvars, rvars, nvars, evars, hvars, wvars>>]_vars
    /\ WF_vars(\E a \in CreateIds : VenueAnswers(a))
    /\ WF_vars(\E a \in CreateIds : ProcessAnswer(a))
    /\ WF_vars(ProcessMarketUpdate)

(***************************************************************************)
(* Properties of the order book.                                           *)
(***************************************************************************)
\* The step processed a change event of the market data socket that was in
\* sequence.
ChangeProcessed ==
    /\ event' # event
    /\ event'.stream = "market_data"
    /\ event'.type = "update"
    /\ event'.side \in {"bid", "ask"}
    /\ event'.socket_sequence = event'.expected

\* The side of the book the change event is about, before and after it.
ChangedSide == IF event'.side = "bid" THEN order_book.bids ELSE order_book.asks
ChangedSideAfter ==
    IF event'.side = "bid" THEN order_book'.bids ELSE order_book'.asks

\* C14: on each side of the order book the prices differ, the bids go
\* strictly down and the asks strictly up from index 0, and every stored
\* quantity is above 0; a change with a negative price or a negative
\* quantity ends in an exception and is not stored.
BookSidesOrderedPositive ==
    /\ \A i, j \in 1..Len(bid_prices) :
           i < j => bid_prices[i] > bid_prices[j]
    /\ \A i, j \in 1..Len(asks) : i < j => asks[i] < asks[j]
    /\ \A p \in BookLevels :
           /\ order_book.bids[p] >= 0
           /\ order_book.asks[p] >= 0
           /\ p < 0 => order_book.bids[p] = 0 /\ order_book.asks[p] = 0
    /\ (/\ event.stream = "market_data"
        /\ event.type = "update"
        /\ event.socket_sequence = event.expected
        /\ event.price < 0 \/ event.remaining < 0)
           => event.raised # ""

\* C15: a change event that sets the quantity 0 at a price that is not in
\* the book raises nothing, leaves the book as it was and leaves the client
\* running.
AbsentLevelDeleteIsNoOp ==
    [][(ChangeProcessed /\ event'.remaining = 0
           /\ ChangedSide[event'.price] = 0)
          => /\ event'.raised = ""
             /\ order_book' = order_book
             /\ ~stopped']_vars

\* The step processed a GDAX snapshot without an exception.
SnapshotApplied ==
    /\ gdax_event' # gdax_event
    /\ gdax_event'.type = "snapshot"
    /\ gdax_event'.raised \in {"", "callback raised"}

\* The quantity a list of quotes gives for the price p, 0 when it has none.
RECURSIVE QuotedAt(_, _)
QuotedAt(quotes, p) ==
    IF quotes = <<>> THEN 0
    ELSE IF quotes[Len(quotes)].price = p THEN quotes[Len(quotes)].quantity
    ELSE QuotedAt(SubSeq(quotes, 1, Len(quotes) - 1), p)

\* C16: after a GDAX snapshot is applied each side of the book has exactly
\* the levels of the snapshot, whatever the book held before.
SnapshotReplacesBook ==
    [][SnapshotApplied =>
          \A p \in GdaxPrices :
              /\ gdax_book'.bids[p] = QuotedAt(gdax_event'.bids, p)
              /\ gdax_book'.asks[p] = QuotedAt(gdax_event'.asks, p)]_vars

(***************************************************************************)
(* Properties of the trader.                                               *)
(***************************************************************************)
\* C17: on_data never runs before the order books are ready: whenever a
\* call of on_data has been made, order_book_ready is set; and
\* order_book_ready changes only by being set in the step that applied a
\* snapshot, and is never cleared.  (order_book_ready is the event of the
\* GDAX client; gemini.py has no such event.)
OnDataAfterBooksReady ==
    /\ [](last.called => order_book_ready)
    /\ [][order_book_ready' # order_book_ready =>
             /\ order_book_ready'
             /\ gdax_event'.type = "snapshot"
             /\ gdax_event'.raised \in {"", "callback raised"}]_vars

\* C18: every action the strategy has put in the action queue is taken out
\* of it in the end, the oldest first: the queue loses actions at its head
\* only, and a queue that holds an action is empty at some later time.
EnqueuedActionsDispatched ==
    /\ [][\/ Len(action_queue') >= Len(action_queue)
          \/ action_queue' = Tail(action_queue)]_vars
    /\ (action_queue # <<>>) ~> (action_queue = <<>>)

NotificationInvokesOnData ==
    notification.source \in Venues => notification.invoked = 1

\* C23: a received, open, match, done or change message of the GDAX
\* websocket is handled and the client goes on: handling it raises nothing.
OrderFramesHandled ==
    gdax_event.type \in {"received", "open", "match", "done", "change"}
        => gdax_event.raised \in {"", "callback raised"}

\* C24: when the response to the request execute_action sent is not ok, the
\* status of the action is FAILED.
FailedRequestFailsAction ==
    (gdax_request.sent /\ ~gdax_request.response_ok)
        => gdax_request.action.status = "FAILED"

AtMostOneOnDataInFlight == Len(calls) <= 1

\* A call of on_data has enqueued an action and has not returned yet.
OnDataInFlightAfterEnqueue ==
    /\ calls # <<>>
    /\ Head(calls).pc = "enqueued"
    /\ last.called
    /\ last.emitted # <<>>

(***************************************************************************)
(* Properties of the strategy.                                             *)
(***************************************************************************)
EmittedAsks ==
    {k \in 1..Len(last.emitted) :
        last.emitted[k].kind = "create" /\ last.emitted[k].side = "ASK"}

EmittedCancels ==
    {k \in 1..Len(last.emitted) : last.emitted[k].kind = "cancel"}

\* C1: while the live bid is SUCCESS, an on_data call that sees the order
\* filled beyond previous_fill_amount enqueues exactly one market ask on the
\* exchange to sell on for the difference and then remembers the filled
\* amount; a call that sees no new fill enqueues no ask.
FillHedgedExactlyOnce ==
    (last.called /\ last.pre_limit.status = "SUCCESS") =>
        IF last.pre_limit.order.filled > last.pre_prev
        THEN /\ Cardinality(EmittedAsks) = 1
             /\ \A k \in EmittedAsks :
                    /\ last.emitted[k].type = "MARKET"
                    /\ last.emitted[k].exchange = exchange_sell_on
                    /\ last.emitted[k].amount =
                           last.pre_limit.order.filled - last.pre_prev
             /\ last.fill_prev = last.pre_limit.order.filled
        ELSE EmittedAsks = {}

\* The four kinds of action the strategy must never make.
IsForbidden(action) ==
    /\ action.kind = "create"
    /\ \/ action.type = "MARKET" /\ action.side = "BID"
       \/ action.type = "LIMIT" /\ action.side = "ASK"
       \/ action.side = "ASK" /\ action.exchange = exchange_buy_on
       \/ action.side = "BID" /\ action.exchange = exchange_sell_on

\* C2: no enqueued action is a market bid, a limit ask, an ask on the
\* exchange to buy on or a bid on the exchange to sell on; when the strategy
\* makes such an action the call ends in an exception and the action is not
\* enqueued.
NoForbiddenActionEnqueued ==
    /\ \A k \in 1..Len(action_queue) : ~IsForbidden(action_queue[k])
    /\ \A k \in 1..Len(last.emitted) : ~IsForbidden(last.emitted[k])
    /\ IsForbidden(live_limit_action) =>
           halted /\ last.raised = "sanity check" /\ last.emitted = <<>>

\* The strategy made a bid on the exchange it sells on: the call raised and
\* the queue stayed empty.
ForbiddenBidRefused ==
    /\ IsForbidden(live_limit_action)
    /\ halted
    /\ action_queue = <<>>

\* The on_data call found the live order open with no live cancel action
\* and returned: it is the call that decides about a cancellation.
CancelDecided ==
    /\ last.called
    /\ last.raised = ""
    /\ last.pre_limit.status = "SUCCESS"
    /\ last.pre_limit.order.status = "OPEN"
    /\ last.pre_cancel = NoAction

\* |F * S / B - (1 + p)| > order_update_threshold, with S from the current
\* bids of the exchange to sell on and B the price of the live order.
ProfitOffTarget ==
    LET S == effective_sell_price(BidAmount, sell_bids)
        B == last.pre_limit.order.price
    IN Abs(20 * FeeNum * S.num
             - (20 + ProfitTargetTwentieths) * FeeDen * BidAmount * B)
           > UpdateThresholdTwentieths * FeeDen * BidAmount * B

\* An on_data call that decides about a cancellation enqueues a cancel
\* action exactly when the profit is off target, and no call enqueues one
\* while there is a live cancel action or enqueues more than one.
CancelExactlyWhenOffTarget ==
    /\ CancelDecided => (EmittedCancels # {} <=> ProfitOffTarget)
    /\ last.called =>
           /\ Cardinality(EmittedCancels) <= 1
           /\ last.pre_cancel # NoAction => EmittedCancels = {}

\* C10: with the live order open and no live cancel action, on_data
\* enqueues a cancel action exactly when |F * S / B - (1 + p)| exceeds the
\* update threshold; the cancel action is addressed to the exchange to buy
\* on and carries the live order's order_id; and no call enqueues a second
\* cancel action while one is live.
CancelAddressedToLiveOrder ==
    /\ CancelExactlyWhenOffTarget
    /\ last.called =>
           \A k \in EmittedCancels :
               /\ live_limit_action.order.status = "OPEN"
               /\ last.emitted[k].exchange = exchange_buy_on
               /\ last.emitted[k].order_id = live_limit_action.order.order_id

\* The call enqueued one action, a limit bid on the exchange to buy on.
EmittedOneBid ==
    /\ Len(last.emitted) = 1
    /\ last.emitted[1].kind = "create"
    /\ last.emitted[1].type = "LIMIT"
    /\ last.emitted[1].side = "BID"
    /\ last.emitted[1].exchange = exchange_buy_on

\* C11: an on_data call that finds no live limit action and returns has
\* enqueued exactly one action, a limit bid on the exchange to buy on, and
\* keeps it as the live limit action (a call that raises has enqueued
\* nothing); an on_data call that finds the live limit action PENDING
\* enqueues nothing and leaves the strategy's fields as they were.
BidPlacedOnceThenWaits ==
    /\ (last.called /\ last.pre_limit = NoAction) =>
           IF last.raised = ""
           THEN EmittedOneBid /\ live_limit_action = last.emitted[1]
           ELSE last.emitted = <<>>
    /\ (last.called /\ last.pre_limit.status = "PENDING") =>
           /\ last.raised = ""
           /\ last.emitted = <<>>
           /\ live_limit_action = last.pre_limit
           /\ live_cancel_action = last.pre_cancel
           /\ previous_fill_amount = last.pre_prev

\* on_data was called while the bid it had enqueued was still PENDING.
CalledWhileBidPending ==
    /\ last.called
    /\ last.pre_limit.status = "PENDING"
    /\ last.pre_limit.side = "BID"
    /\ live_limit_action.status = "PENDING"

\* C12: an on_data call that finds the live limit action FAILED clears it
\* and enqueues nothing; the on_data call that follows it, when it returns,
\* enqueues the new limit bid on the exchange to buy on.
FailedBidClearedThenRebid ==
    /\ [](last.called /\ last.pre_limit.status = "FAILED" =>
             /\ last.raised = ""
             /\ last.emitted = <<>>
             /\ live_limit_action = NoAction)
    /\ [][(/\ last.called
            /\ last.pre_limit.status = "FAILED"
            /\ last'.called
            /\ last' # last
            /\ last'.raised = "")
               => /\ Len(last'.emitted) = 1
                  /\ last'.emitted[1].kind = "create"
                  /\ last'.emitted[1].type = "LIMIT"
                  /\ last'.emitted[1].side = "BID"
                  /\ last'.emitted[1].exchange = exchange_buy_on
                  /\ live_limit_action' = last'.emitted[1]]_vars

\* on_data found the live limit action FAILED and cleared it.
FailedBidCleared ==
    /\ last.called
    /\ last.pre_limit.status = "FAILED"
    /\ live_limit_action = NoAction

\* The LIMIT bids the on_data call enqueued.
EmittedBids ==
    {k \in 1..Len(last.emitted) :
        /\ last.emitted[k].kind = "create"
        /\ last.emitted[k].side = "BID"
        /\ last.emitted[k].type = "LIMIT"}

\* C26: a LIMIT bid on_data enqueues is for the configured bid amount at
\* most, and its amount times its price is at most the free USD balance
\* on_data read (the amount is in 0.001 BTC, the price in cents and the
\* balance in 10^-6 USD, so the amount is a whole number of 0.001 BTC).
BidWithinBalance ==
    \A k \in EmittedBids :
        /\ last.emitted[k].amount <= BidAmount
        /\ last.emitted[k].amount > 0
        /\ last.emitted[k].amount * last.emitted[k].price * 10
               <= last.usd_balance

\* C27: for bids that can fill the bid amount, the effective sell price is
\* the sum of q_i * p_i over the bids from the top, each q_i cut to the
\* quantity still needed, divided by the amount: it lies between the
\* lowest and the highest price of the book; for bids that cannot fill the
\* amount the calculation fails and on_data enqueues no bid.  The property
\* is about the on_data calls that found no live limit action and
\* calculated the price for a new bid.
EffectiveSellPriceWeighted ==
    LET sell == effective_sell_price(BidAmount, sell_bids)
    IN (/\ last.called
        /\ last.pre_limit = NoAction
        /\ last.raised # "balance request failed") =>
           /\ sell.ok <=> BookQuantity(sell_bids) >= BidAmount
           /\ sell.ok =>
                  /\ sell.num = FilledValue(sell_bids, 1, BidAmount)
                  /\ sell.num <= BidAmount * sell_bids[1].price
                  /\ sell.num >= BidAmount * sell_bids[Len(sell_bids)].price
                  /\ \A k \in EmittedBids :
                         last.emitted[k].price =
                             calculate_bid_limit_price(
                                 FilledValue(sell_bids, 1, BidAmount),
                                 BidAmount)
           /\ ~sell.ok => EmittedBids = {} /\ last.raised # ""

\* The exceptions on_data raises in its handling of the live cancel action.
CancelHandlingErrors ==
    {"cancel action has no status", "cancel successful but order open",
     "cancel action failed"}

UnfinishedOrderIsFatal ==
    (/\ last.called
     /\ last.pre_limit # NoAction
     /\ last.pre_limit.status = "SUCCESS"
     /\ last.pre_cancel = NoAction
     /\ last.pre_limit.order # NoOrder
     /\ \/ last.pre_limit.order.status = "CANCELLED"
        \/ /\ last.pre_limit.order.status = "CLOSED"
           /\ last.pre_limit.order.filled < last.pre_limit.order.amount)
        => /\ last.raised # ""
           /\ live_limit_action = last.pre_limit
           /\ EmittedCancels = {}
           /\ EmittedBids = {}

\* C36: every market ask on_data enqueues is for a positive amount, and the
\* asks add up to what the limit bids have been filled: after a call that
\* handled a live order, previous_fill_amount is the filled amount of that
\* order, and previous_fill_amount is 0 whenever there is no live limit
\* action, so that the next bid is hedged from its first fill on.
HedgesAddUpToFills ==
    /\ \A k \in EmittedAsks : last.emitted[k].amount > 0
    /\ live_limit_action = NoAction => previous_fill_amount = 0
    /\ (/\ last.called
        /\ last.raised = ""
        /\ live_limit_action # NoAction
        /\ live_limit_action.status = "SUCCESS")
           => previous_fill_amount = live_limit_action.order.filled

\* The live limit action stands for a bid that is waiting to be placed or
\* may rest on the exchange: PENDING, or SUCCESS with an order that is
\* neither CLOSED nor cancelled with the cancel action SUCCESS.
BidOutstanding(limit, cancel) ==
    /\ limit # NoAction
    /\ \/ limit.status = "PENDING"
       \/ /\ limit.status = "SUCCESS"
          /\ limit.order.status # "CLOSED"
          /\ ~(cancel # NoAction /\ cancel.status = "SUCCESS")

FillHedgedBeforeCancelClears ==
    (/\ last.called
     /\ last.pre_limit # NoAction
     /\ last.pre_limit.status = "SUCCESS"
     /\ last.pre_cancel # NoAction
     /\ last.pre_cancel.status \in {"PENDING", "SUCCESS"}
     /\ last.pre_limit.order # NoOrder
     /\ last.pre_limit.order.filled > last.pre_prev)
        => /\ Cardinality(EmittedAsks) = 1
           /\ \A k \in EmittedAsks :
                  /\ last.emitted[k].amount =
                         last.pre_limit.order.filled - last.pre_prev
                  /\ last.emitted[k].type = "MARKET"
                  /\ last.emitted[k].exchange = exchange_sell_on
           /\ last.fill_prev = last.pre_limit.order.filled

\* on_data hedged a fill in the call that cleared the cancelled bid.
FillHedgedAsCancelCleared ==
    /\ last.called
    /\ last.raised = ""
    /\ last.pre_cancel.status = "SUCCESS"
    /\ last.pre_limit.order.filled > last.pre_prev
    /\ EmittedAsks # {}
    /\ live_limit_action = NoAction

\* C39: an on_data call that finds the live order filled to the configured
\* bid amount and CLOSED while the cancel action for it is PENDING, or has
\* been rejected, ends without an exception, forgets both live actions and
\* zeroes previous_fill_amount.
FilledBidResetsDespiteCancel ==
    (/\ last.called
     /\ last.pre_limit # NoAction
     /\ last.pre_limit.status = "SUCCESS"
     /\ last.pre_limit.order # NoOrder
     /\ last.pre_limit.order.status = "CLOSED"
     /\ last.pre_limit.order.filled = BidAmount
     /\ last.pre_cancel # NoAction
     /\ last.pre_cancel.status \in {"PENDING", "FAILED"})
        => /\ last.raised = ""
           /\ live_limit_action = NoAction
           /\ live_cancel_action = NoAction
           /\ previous_fill_amount = 0

\* C40: an on_data call that finds the cancel action SUCCESS while the
\* live order is still OPEN ends in an exception and keeps the live limit
\* action and the live cancel action.
CancelledButOpenIsFatal ==
    (/\ last.called
     /\ last.pre_limit # NoAction
     /\ last.pre_limit.status = "SUCCESS"
     /\ last.pre_limit.order # NoOrder
     /\ last.pre_limit.order.status = "OPEN"
     /\ last.pre_cancel # NoAction
     /\ last.pre_cancel.status = "SUCCESS")
        => /\ last.raised # ""
           /\ live_limit_action = last.pre_limit
           /\ live_cancel_action = last.pre_cancel

\* C13: an on_data call that finds the live order filled to the configured
\* bid amount and CLOSED enqueues the hedge ask and nothing else, forgets
\* the live limit action and zeroes previous_fill_amount; filled to the
\* configured bid amount but not CLOSED, the call ends in an exception.
FullFillResets ==
    (/\ last.called
     /\ last.pre_limit.status = "SUCCESS"
     /\ last.pre_limit.order.filled = BidAmount)
        => IF last.pre_limit.order.status = "CLOSED"
           THEN /\ last.raised = ""
                /\ \A k \in 1..Len(last.emitted) :
                       /\ last.emitted[k].kind = "create"
                       /\ last.emitted[k].side = "ASK"
                       /\ last.emitted[k].type = "MARKET"
                /\ last.pre_prev < BidAmount => Cardinality(EmittedAsks) = 1
                /\ live_limit_action = NoAction
                /\ previous_fill_amount = 0
           ELSE last.raised # ""

(***************************************************************************)
(* Properties of the Gemini client.                                        *)
(***************************************************************************)
\* The step processed a message of the order events socket.
OrderEventProcessed == event' # event /\ event'.stream = "orders"

\* The Order object a CreateOrder holds, NoRef's value when it holds none.
ResultOrder(action, table) ==
    IF action.order.kind = "stored" THEN table[action.order.order_id]
    ELSE action.order.value

\* C3: on each stream a processed message other than a subscription_ack,
\* heartbeats included, has the socket_sequence the client expected, and
\* the expected value is then larger by one.
SocketSequenceChecked ==
    (/\ event.stream # "none"
     /\ event.type \notin {"empty", "subscription_ack"}
     /\ event.raised = "")
        => /\ event.socket_sequence = event.expected
           /\ socket_info[event.stream].seq = event.expected + 1

\* C31: the first heartbeat of the GDAX feed is accepted and its time
\* recorded; a later one is accepted, and its time recorded, exactly when
\* its time is 0.5 s to 1.5 s, ends included, after the recorded time; a
\* rejected heartbeat stops the client and leaves the recorded time as it
\* was.
HeartbeatWithinWindow ==
    beat.handled =>
        LET delta == beat.time - beat.before
            accepted == \/ beat.before = None
                        \/ HalfSecond <= delta /\ delta <= 3 * HalfSecond
        IN /\ accepted <=> beat.raised = ""
           /\ accepted => last_heartbeat_at = beat.time /\ ~feed_stopped
           /\ ~accepted => last_heartbeat_at = beat.before /\ feed_stopped

\* A heartbeat exactly 1.5 s after the last one was accepted and recorded.
HeartbeatAtWindowEnd ==
    /\ beat.handled
    /\ beat.before # None
    /\ beat.time - beat.before = 3 * HalfSecond
    /\ beat.raised = ""
    /\ last_heartbeat_at = beat.time

\* C32: the watchdog wakes every 5 s and raises exactly when the last
\* heartbeat is more than 10 s old; so a client that still runs 15 s or
\* more after the feed opened has a heartbeat that is at most 15 s old.
WatchdogBoundsStaleness ==
    /\ watch.woke =>
           /\ watch.now % Seconds(exchange_latency_check_interval) = 0
           /\ watch.last # None =>
                  (watch.raised <=> watch.now - watch.last > Seconds(10))
    /\ (~feed_stopped /\ clock >= Seconds(15)) =>
           /\ last_heartbeat_at # None
           /\ clock - last_heartbeat_at <= Seconds(15)

\* The last message processed was a heartbeat of stream s.
HeartbeatOf(s) == event.stream = s /\ event.type = "heartbeat"

\* The heartbeat records of stream s are as they were before the message.
HeartbeatRecordsKept(s) ==
    /\ socket_info[s].heartbeat_seq = event.heartbeat_expected
    /\ socket_info[s].heartbeat_timestamp_ms = event.heartbeat_timestamp_ms

\* A heartbeat of stream s was checked: fatal with socket_sequence 0 or
\* with a sequence other than the expected one, the records kept; else the
\* expected heartbeat sequence is larger by one and the time is recorded.
HeartbeatChecked(s) ==
    HeartbeatOf(s) =>
        IF event.socket_sequence = 0 \/ event.sequence # event.heartbeat_expected
        THEN event.raised # "" /\ HeartbeatRecordsKept(s)
        ELSE /\ event.raised = ""
             /\ socket_info[s].heartbeat_seq = event.heartbeat_expected + 1
             /\ socket_info[s].heartbeat_timestamp_ms = event.timestampms

MisplacedOrderEventIsFatal ==
    [][(/\ OrderEventProcessed
        /\ \/ /\ event'.type = "initial"
              /\ ~IsNone(orders[event'.order_id])
           \/ /\ event'.type \in {"fill", "closed", "cancelled"}
              /\ IsNone(orders[event'.order_id]))
          => /\ event'.raised # ""
             /\ stopped'
             /\ orders' = orders
             /\ create_actions' = create_actions
             /\ cancel_actions' = cancel_actions
      ]_vars

\* An 'initial' event for an order in the table stopped the client.
InitialForKnownOrderStopped ==
    /\ event.stream = "orders"
    /\ event.type = "initial"
    /\ event.raised = "initial for an existing order"
    /\ ~IsNone(orders[event.order_id])
    /\ stopped

\* C4: once execute_action has sent the order of a, an 'accepted'
\* ('rejected') event with a's client_order_id stores the order under its
\* order_id, makes it a's order and sets a's status to SUCCESS (FAILED); an
\* 'accepted' or 'rejected' event for no known action stops the client.
AnswerSettlesAction ==
    [][OrderEventProcessed /\ event'.type \in {"accepted", "rejected"} =>
          /\ \A a \in CreateIds :
                (/\ event'.client_order_id.of = a
                 /\ create_actions[a].sent
                 /\ create_actions[a].order = NoRef)
                    => /\ ~stopped'
                       /\ ~IsNone(orders'[event'.order_id])
                       /\ create_actions'[a].order = StoredRef(event'.order_id)
                       /\ create_actions'[a].status =
                              IF event'.type = "accepted" THEN "SUCCESS"
                              ELSE "FAILED"
          /\ event'.client_order_id.of \notin CreateIds => stopped'
      ]_vars

\* C5: the status of a CreateOrder changes only from PENDING, to SUCCESS on
\* an 'accepted' and to FAILED on a 'rejected' event for it; an 'accepted'
\* or 'rejected' event for a known action that already has an order stops
\* the client and leaves the action's status and order as they were.
StatusChangesOnce ==
    [][\A a \in CreateIds :
          /\ create_actions'[a].status # create_actions[a].status =>
                /\ create_actions[a].status = "PENDING"
                /\ OrderEventProcessed
                /\ event'.client_order_id.of = a
                /\ \/ event'.type = "accepted"
                      /\ create_actions'[a].status = "SUCCESS"
                   \/ event'.type = "rejected"
                      /\ create_actions'[a].status = "FAILED"
          /\ create_actions[a].status # "PENDING" =>
                ResultOrder(create_actions'[a], orders')
                    = ResultOrder(create_actions[a], orders)
                \/ ~OrderEventProcessed
                \/ event'.type \in {"fill", "closed"}
          /\ (/\ OrderEventProcessed
              /\ event'.type \in {"accepted", "rejected"}
              /\ event'.client_order_id = [form |-> "int", of |-> a]
              /\ a \in known_actions
              /\ create_actions[a].order # NoRef)
                 => /\ stopped'
                    /\ create_actions'[a].status = create_actions[a].status
                    /\ ResultOrder(create_actions'[a], orders')
                           = ResultOrder(create_actions[a], orders)
      ]_vars

\* A second answer came for an action that had its order: the client
\* stopped and the action kept its status.
SecondAnswerRefused ==
    /\ event.type \in {"accepted", "rejected"}
    /\ event.raised = "action already has an order"
    /\ \E a \in CreateIds : create_actions[a].status \in {"SUCCESS", "FAILED"}

\* C6: a CreateOrder whose answer the client has taken from its queue is no
\* longer PENDING.
AnsweredActionsSettle ==
    \A a \in CreateIds :
        answers[a] = "taken" => create_actions[a].status # "PENDING"

\* C7: every stored order has amount, filled and remaining defined, and
\* amount = filled + remaining.
AmountsAddUp ==
    \A o \in OrderIds :
        ~IsNone(orders[o]) =>
            /\ orders[o].amount # None
            /\ orders[o].filled # None
            /\ orders[o].remaining # None
            /\ orders[o].amount = orders[o].filled + orders[o].remaining

\* C8: a stored order that is CLOSED or CANCELLED is not changed by any
\* later event.
TerminalOrdersFrozen ==
    [][\A o \in OrderIds :
          orders[o].status \in {"CLOSED", "CANCELLED"} => orders'[o] = orders[o]
      ]_vars

\* C9: once execute_action has sent the CancelOrder for a stored order, a
\* 'cancelled' event for that order leaves the order CANCELLED and the
\* CancelOrder SUCCESS; a 'cancelled' event stops the client when the order
\* is not stored or no CancelOrder for it is known.
CancelledSettlesOrder ==
    \A o \in CancelTargets :
        (event.type = "cancelled" /\ event.order_id = o) =>
            /\ (cancel_actions[o].sent /\ ~IsNone(orders[o])) =>
                   /\ event.raised = ""
                   /\ orders[o].status = "CANCELLED"
                   /\ cancel_actions[o].status = "SUCCESS"
            /\ (IsNone(orders[o])
                \/ (~cancel_actions[o].sent /\ o \notin known_cancel_actions))
                   => event.raised # ""

(***************************************************************************)
(* Properties of the queue consumers.                                      *)
(***************************************************************************)
\* C21: _process_queue never notifies while its queue holds a message, and
\* once it has handled the messages of a burst and its queue is empty it
\* has made the notification the burst called for: no callback is pending
\* on an empty queue of a client that runs.
CallbackCoalesced ==
    /\ event.notified => qsize[event.stream] = 0
    /\ \A s \in Streams :
           (~stopped /\ qsize[s] = 0) => ~pending_callback[s]

\* C33: when _process_queue takes the last message out of its queue and
\* goes on running, no state change is left without its notification: a
\* callback that was pending is made in that step, whatever the message
\* is, and none is pending after it.
DrainedQueueNotifies ==
    [][\A s \in Streams :
          (qsize[s] = 1 /\ qsize'[s] = 0 /\ ~stopped') =>
              /\ pending_callback[s] => event'.notified
              /\ ~pending_callback'[s]
      ]_vars

\* The types of frame each stream handles.
HandledTypes(s) ==
    IF s = "orders"
    THEN OrderEventTypes \cup {"subscription_ack", "heartbeat", "empty"}
    ELSE {"update", "subscription_ack", "heartbeat", "empty"}

\* C34: a frame whose type is not one its stream handles stops the client
\* that read it: the Gemini client on its order events and market data
\* streams, the GDAX client on its feed.
UnknownTypeIsFatal ==
    /\ (event.stream # "none" /\ event.type \notin HandledTypes(event.stream))
           => event.raised # "" /\ stopped
    /\ gdax_event.type = "unknown" => gdax_event.raised # "" /\ gdax_stopped

====
